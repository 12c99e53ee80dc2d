----------------------------- MODULE MCMessageStore -----------------------------
(* Instances of MessageStore for TLC: which goroutines there are, and two texts. *)
EXTENDS MessageStore, TLC

\* Goroutines that run the same operation start alike, and texts are opaque.
StoreSymmetry ==
  Permutations(Senders) \cup Permutations(Receivers) \cup Permutations(Arrivals)
    \cup Permutations(Getters) \cup Permutations(Updaters)
    \cup Permutations(Deleters) \cup Permutations(Text)
================================================================================
