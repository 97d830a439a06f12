--------------------------- MODULE SessionOwnership ---------------------------
(***************************************************************************)
(* What the session code promises about an HdcSession object, whatever the *)
(* way it keeps the promise.  An object is created with users: threads,    *)
(* handles and requests that hold a pointer to it.  The users of an object *)
(* change, but only as long as there is one: a new user gets the pointer   *)
(* from a present one.  An object is killed once, and it is destroyed when *)
(* it is dead and the last user has gone.                                  *)
(***************************************************************************)
CONSTANTS Objects, Users
VARIABLES life,  \* "none", "live", "dying", "freed"
          users  \* the users of each object

ownVars == <<life, users>>

Init == /\ life = [o \in Objects |-> "none"]
        /\ users = [o \in Objects |-> {}]

Present(o) == life[o] \in {"live", "dying"}

\* An object is created, perhaps to be freed at once: a connection that fails.
Create(o) ==
    /\ life[o] = "none"
    /\ \E l \in {"live", "dying"}, U \in (SUBSET Users) \ {{}} :
          /\ life' = [life EXCEPT ![o] = l]
          /\ users' = [users EXCEPT ![o] = U]

\* Users come and go, at several objects in one step.
UsersMove ==
    /\ users' \in [Objects -> SUBSET Users]
    /\ \A o \in Objects : users'[o] # users[o] => Present(o) /\ users[o] # {}

Hand == UsersMove /\ UNCHANGED life

\* Live objects are marked dead; users may leave in that step.
Kill ==
    /\ \E O \in SUBSET {o \in Objects : life[o] = "live"} :
          life' = [o \in Objects |-> IF o \in O THEN "dying" ELSE life[o]]
    /\ UsersMove

Destroy(o) ==
    /\ life[o] = "dying" /\ users[o] = {}
    /\ life' = [life EXCEPT ![o] = "freed"]
    /\ UNCHANGED users

Next == Hand \/ Kill \/ \E o \in Objects : Create(o) \/ Destroy(o)

Spec == Init /\ [][Next]_ownVars
===============================================================================
