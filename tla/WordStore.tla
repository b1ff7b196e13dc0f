------------------------------ MODULE WordStore ------------------------------
(***************************************************************************)
(* What the kernel's disk driver promises to its callers: a store of       *)
(* words.  One request at a time; reading a word returns what the store    *)
(* holds there, writing one changes that word and nothing else.            *)
(***************************************************************************)
CONSTANTS
    Sectors, Words,
    Data,         \* the values a word can have
    Image(_, _),  \* Image(s, w): what word w of sector s holds at first
    Requests, NoRequest

VARIABLES store, request, reply

vars == <<store, request, reply>>

Init ==
    /\ store = [s \in Sectors |-> [w \in Words |-> Image(s, w)]]
    /\ request = NoRequest
    /\ reply \in Data

Ask ==
    /\ request = NoRequest
    /\ request' \in Requests
    /\ UNCHANGED <<store, reply>>

Read ==
    /\ request # NoRequest /\ request.op = "read"
    /\ reply' = store[request.sector][request.word]
    /\ request' = NoRequest
    /\ UNCHANGED store

Write ==
    /\ request # NoRequest /\ request.op = "write"
    /\ store' = [store EXCEPT ![request.sector][request.word] = request.data]
    /\ request' = NoRequest
    /\ UNCHANGED reply

Next == Ask \/ Read \/ Write

Spec == Init /\ [][Next]_vars
=============================================================================
