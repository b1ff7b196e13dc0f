------------------------------ MODULE ByteMemory ------------------------------
(***************************************************************************)
(* A memory, as a program sees it: bytes at addresses.  A load returns     *)
(* what the addresses hold, a store changes those addresses and no other,  *)
(* and memory that is added leaves the old one as it was.                  *)
(***************************************************************************)
EXTENDS Integers, Sequences

CONSTANTS
    Lens,       \* bytes of one access
    Values      \* what a byte may hold

VARIABLES
    space,      \* [addresses in use -> Values]
    reply       \* what the last load returned

Init == space = <<>> /\ reply = <<>>

Area(a, len) == a..(a + len - 1)

Load ==
    /\ LET now == space IN
        \E a \in DOMAIN now, len \in Lens :
            /\ Area(a, len) \subseteq DOMAIN now
            /\ reply' = [j \in 1..len |-> now[a + j - 1]]
    /\ UNCHANGED space

Store ==
    /\ LET now == space
           new == space'
       IN
        /\ DOMAIN new = DOMAIN now
        /\ \E a \in DOMAIN now, len \in Lens :
            /\ Area(a, len) \subseteq DOMAIN now
            /\ \A b \in DOMAIN now :
                IF b \in Area(a, len) THEN new[b] \in Values ELSE new[b] = now[b]
    /\ reply' = <<>>

Grow ==
    /\ LET now == space
           new == space'
       IN
        /\ DOMAIN now \subseteq DOMAIN new
        /\ \A a \in DOMAIN now : new[a] = now[a]
    /\ reply' = <<>>

Next == Load \/ Store \/ Grow

Spec == Init /\ [][Next]_<<space, reply>>
=============================================================================
