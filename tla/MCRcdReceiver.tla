--------------------------- MODULE MCRcdReceiver ---------------------------
(* Instances of RcdReceiver for TLC.  Handlers are interchangeable.  The      *)
(* second message's hashes select one bit, which the first one's select too:  *)
(* a false positive for a batch with the first message.                       *)
EXTENDS RcdReceiver, TLC

HandlerSymmetry == Permutations(Handlers)

BothModes(deterministic, probabilistic) ==
    "ModeDeterministic" :> deterministic @@ "ModeProbabilistic" :> probabilistic
MCRetention == BothModes(1, 0)
MCCopies == BothModes(2, 1)
MCMaxSlot == BothModes(4, 3)

DeterministicOnly(value) == "ModeDeterministic" :> value
RolloverRetention == DeterministicOnly(1)
RolloverCopies == DeterministicOnly(1)
RolloverMaxSlot == DeterministicOnly(3)

MCData == 0..1
MCHash1 == 0 :> 250 @@ 1 :> 3
MCHash2 == 0 :> 1 @@ 1 :> 0
=============================================================================
