------------------------ MODULE MCInstitutionCallbacks ------------------------
(* One channel whose role moves between two institutions. The stream of the *)
(* first has three places, two callbacks compete for the second place and   *)
(* one id is used twice; its callbacks are signed with two keys.            *)
EXTENDS InstitutionCallbacks, TLC

CONSTANTS c1, c2, c3, c4, c5, agent, other, k1, k2, maker, checker

MCId == {c1, c2, c3, c4, c5}
MCInstitution == {agent, other}
MCKey == {k1, k2}
MCActor == {maker, checker}

Signed(id, institution, sequence, key) ==
  [id |-> id, institution |-> institution, channel |-> "REGISTER",
   sequence |-> sequence, key |-> key]

MCEnvelope == {
  Signed(c1, agent, 1, k1), Signed(c2, agent, 2, k1), Signed(c3, agent, 3, k2),
  Signed(c4, agent, 2, k2), Signed(c1, agent, 3, k1), Signed(c5, other, 1, k2)}

Alike == Permutations(MCActor)
=============================================================================
