------------------------------ MODULE Warrant -------------------------------
(***************************************************************************)
(* What answer ought to say: Procedure 5.1 and Def 5.3 of Garcia & Simari  *)
(* 2004, read off whole argumentation lines.  The code never has a line in *)
(* hand: _expand passes two accumulators and the edge kinds down, and      *)
(* tests a candidate against these.                                        *)
(***************************************************************************)
EXTENDS Dialectic

Kind(line, i) == IF i = 1 THEN "root" ELSE defeat_kind(line[i], line[i - 1])

RulesAt(line, parity) == UNION {line[i].rules : i \in {j \in DOMAIN line : j % 2 = parity}}

\* Def 4.7 (3) and (4) for the i-th argument of a line.
FollowsAt(line, i) ==
  /\ defeats(line[i], line[i - 1])
  /\ \/ \E r \in line[i - 1].rules : line[i].conclusion \in r.default_negated_body
     \/ /\ \A j \in 1 .. i - 1 : ~(line[i].rules \subseteq line[j].rules)
        /\ ~(Kind(line, i - 1) = "blocking" /\ Kind(line, i) = "blocking")

AcceptableLine(line) ==
  /\ \A i \in 2 .. Len(line) : FollowsAt(line, i)
  /\ ~Contradictory(RulesAt(line, 0))
  /\ ~Contradictory(RulesAt(line, 1))

(***************************************************************************)
(* Procedure 5.1: the last argument of a line is marked U when every       *)
(* acceptable extension of the line by one more argument is marked D.      *)
(***************************************************************************)
Undefeated[line \in Seq(arguments)] ==
  \A x \in arguments :
    AcceptableLine(Append(line, x)) => ~Undefeated[Append(line, x)]

Warranted(literal) ==
  \E x \in arguments :
    x.conclusion = literal /\ (\A r \in x.rules : r.kind # "defeater") /\ Undefeated[<<x>>]

(***************************************************************************)
(* Def 5.3: YES exactly when the literal is warranted, NO exactly when its *)
(* complement is.  answer does not look at the complement once the literal *)
(* is warranted, so this also says that the two never are together.        *)
(***************************************************************************)
AnswerIsWarrant ==
  stage \in Answers =>
    /\ stage = "YES" <=> Warranted(ask.literal)
    /\ stage = "NO" <=> Warranted(complement(ask.literal))
=============================================================================
