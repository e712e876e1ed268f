------------------------------- MODULE MCWalk -------------------------------
(* Small instances of the corpora and of the walks to them. *)
EXTENDS CorpusWalk

\* Events at the end, in the middle and before the others, a replaced and a
\* restored one, a removal, a removal of nothing, and no change at all.
Event(id, content) == [id |-> id, content |-> content]
MCLaunch == {Event(2, 1), Event(3, 1), Event(4, 1)}
Grow == <<{Event(5, 1), Event(6, 1)}, {}>>
Edit == <<{Event(3, 2)}, {3}>>
Restore == <<{Event(3, 1)}, {3}>>
MCChanges == {Grow, Edit, Restore, <<{Event(1, 1)}, {4}>>, <<{}, {2, 7}>>, <<{Event(4, 2)}, {}>>}

\* A drained chain has a defective delta in its middle, or one entry of
\* another bundle, or neither.
DrainedChain(published, entries) ==
  LET defective == {i \in DOMAIN published : published[i].defect # "none"}
      foreign == {i \in DOMAIN entries : entries[i].bundle # LoadedBundle} IN
  /\ defective \subseteq {2}
  /\ Cardinality(defective) + Cardinality(foreign) <= 1

\* The operator supplies no corpus, or the latest.
DrainNext ==
  /\ \/ \E change \in {Grow, Edit, Restore}, defect \in Defects : Publish(change, defect)
     \/ \E bundle \in Bundles : Advance(bundle)
     \/ \E i \in DOMAIN corpora, given \in {{}, {Last(corpora).root}} : StartDrain(corpora[i], given)
     \/ UseLoaded \/ UseSupplied \/ UseHeld \/ Resolve \/ WalkFails \/ WalkOn
  /\ DrainedChain(deltas', backlog')
=============================================================================
