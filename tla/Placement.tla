-------------------------------- MODULE Placement --------------------------------
(* What an allocator promises, whatever its strategy: every job is decided once,  *)
(* and for good.  It is put on a place it may use and that has room for it, or    *)
(* refused because none has.  A job without timing is set aside.                  *)
EXTENDS Integers

CONSTANTS Jobs, Places, NoPlace

VARIABLES
    timed,      \* the jobs that have a demand
    need,       \* what each of them takes
    allowed,    \* the places each job may use
    room,       \* what is left of each place
    place,      \* where each job is, or NoPlace
    pending,    \* jobs not decided yet
    refused     \* jobs given up

vars == <<timed, need, allowed, room, place, pending, refused>>

Init ==
    /\ timed \subseteq Jobs
    /\ need \in [Jobs -> Nat]
    /\ allowed \in [Jobs -> SUBSET Places]
    /\ room \in [Places -> Nat]
    /\ place = [j \in Jobs |-> NoPlace]
    /\ pending = Jobs
    /\ refused = {}

Put(j, p) ==
    /\ j \in pending \cap timed /\ p \in allowed[j] /\ need[j] <= room[p]
    /\ place' = [place EXCEPT ![j] = p]
    /\ room' = [room EXCEPT ![p] = @ - need[j]]
    /\ pending' = pending \ {j}
    /\ UNCHANGED <<timed, need, allowed, refused>>

Refuse(S) ==
    /\ S \subseteq pending
    /\ \A j \in S : \A p \in allowed[j] : need[j] > room[p]
    /\ refused' = refused \cup S
    /\ pending' = pending \ S
    /\ UNCHANGED <<timed, need, allowed, room, place>>

SetAside ==
    /\ pending' = pending \cap timed
    /\ UNCHANGED <<timed, need, allowed, room, place, refused>>

Next ==
    \/ \E j \in Jobs, p \in Places : Put(j, p)
    \/ \E S \in SUBSET Jobs : Refuse(S)
    \/ SetAside

Spec == Init /\ [][Next]_vars
===================================================================================
