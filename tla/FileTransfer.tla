---------------------------- MODULE FileTransfer ----------------------------
(***************************************************************************)
(* What one image transfer promises to the rest of ws63flash.  The chip    *)
(* stores the blocks of the image in order, each once, and the host says   *)
(* "delivered" only when the chip has every block.  The host may also fail *)
(* or lose count of the answers ("unsure"): from then on nothing is        *)
(* promised, except that what is stored stays stored.                      *)
(***************************************************************************)
EXTENDS Naturals, Sequences

CONSTANTS
  NBlocks,      \* blocks in the image
  ImageBlock(_) \* payload of block i

VARIABLES
  stored,   \* payloads the chip has stored
  outcome   \* what the host knows of the transfer

ftVars == <<stored, outcome>>

Init ==
  /\ stored = <<>>
  /\ outcome = "running"

\* The next block of the image reaches the chip.
Store ==
  /\ outcome = "running"
  /\ Len(stored) < NBlocks
  /\ stored' = Append(stored, ImageBlock(Len(stored) + 1))
  /\ UNCHANGED outcome

Report ==
  /\ outcome = "running"
  /\ \/ outcome' = "delivered" /\ Len(stored) = NBlocks
     \/ outcome' = "unsure"
  /\ UNCHANGED stored

\* Once the host is unsure the chip may still store what was sent to it.
Stray ==
  /\ outcome = "unsure"
  /\ Len(stored') > Len(stored)
  /\ \A k \in 1..Len(stored) : stored'[k] = stored[k]
  /\ UNCHANGED outcome

Next == Store \/ Report \/ Stray

Spec == Init /\ [][Next]_ftVars
=============================================================================
