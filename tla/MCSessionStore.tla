--------------------------- MODULE MCSessionStore ---------------------------
(***************************************************************************)
(* Instances of SessionStore for TLC, with the history of SessionAge: when *)
(* each request looked its session up.  A content is the sequence of the   *)
(* turns a session has seen, each named by the session-independent label   *)
(* of the turn; a body appends one label or, when the session is full,     *)
(* leaves it as it is (a closed session).  A lost update shows as a        *)
(* sequence that does not extend the one it replaced.                      *)
(***************************************************************************)
EXTENDS SessionAge, SequencesExt, TLC

CONSTANTS t1, t2, t3, s1, s2

MCTasks2 == {t1, t2}
MCTasks3 == {t1, t2, t3}
MCSession1 == {s1}
MCSessions2 == {s1, s2}

StoreSymmetry == Permutations(Tasks) \cup Permutations(SessionIds)

MCInstants2 == 0..2
MCInstants3 == 0..3

Turns == {1, 2}
MaxTurns == 2

MCContents == BoundedSeq(Turns, MaxTurns)
MCNewContents == {<<>>}
MCStep ==
    {<<b, c>> \in MCContents \X MCContents :
        \/ \E x \in Turns : c = Append(b, x)
        \/ Len(b) = MaxTurns /\ c = b}

=============================================================================
