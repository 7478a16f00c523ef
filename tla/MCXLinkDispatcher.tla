--------------------------- MODULE MCXLinkDispatcher ---------------------------
EXTENDS XLinkDispatcher, TLC

CONSTANTS w1, w2, d1

Write(n) == [type |-> "WRITE", size |-> n]
Read     == [type |-> "READ", size |-> 0]
Release  == [type |-> "RELEASE", size |-> 0]
Reset    == [type |-> "RESET", size |-> 0]

MCHostThreads   == {w1, w2}
MCDeviceThreads == {d1}
\* A link that works, with both directions in use; one that is unplugged or reset.
MCOps == [b \in BOOLEAN |->
    IF b THEN w1 :> {Write(1), Read} @@ w2 :> {Read, Reset} @@ d1 :> {Read, Write(1)}
         ELSE w1 :> {Write(1), Write(2)} @@ w2 :> {Write(1), Read}
              @@ d1 :> {Read, Release, Write(1)}]
MCBudget == [b \in BOOLEAN |->
    IF b THEN w1 :> 1 @@ w2 :> 1 @@ d1 :> 1
         ELSE w1 :> 2 @@ w2 :> 1 @@ d1 :> 3]

\* One thread goes round the ring while the read of another one waits.
RoundOps == [b \in BOOLEAN |-> w1 :> {Write(1)} @@ w2 :> {Read, Release}
                                    @@ d1 :> {Write(1), Read, Release}]
RoundBudget == [b \in BOOLEAN |-> w1 :> 3 @@ w2 :> 2 @@ d1 :> 3]
===============================================================================
