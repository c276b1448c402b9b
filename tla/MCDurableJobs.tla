----------------------------- MODULE MCDurableJobs -----------------------------
(***************************************************************************)
(* Values for the constants of DurableJobs.                                *)
(***************************************************************************)
EXTENDS DurableJobs, TLC

CONSTANTS j1, j2, w1, w2, h1, h2

(* Both slots in one container, as in worker-cpu.                           *)
OneHost == (w1 :> h1) @@ (w2 :> h1)
OneSlot == w1 :> h1
(* Two containers of one consumer.                                          *)
TwoHosts == (w1 :> h1) @@ (w2 :> h2)

SlotSymmetry == Permutations({w1, w2})

OneRow == j1 :> "k1"
SharedKey == (j1 :> "k1") @@ (j2 :> "k1")
OwnKeys == (j1 :> "k1") @@ (j2 :> "k2")

===============================================================================
