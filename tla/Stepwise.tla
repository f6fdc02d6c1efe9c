------------------------------ MODULE Stepwise ------------------------------
(***************************************************************************)
(* Loops over long values: FoldLeft of the community modules, in which     *)
(* every value is computed before the next, and half the loop before the   *)
(* other half, so that an evaluator need not nest them.                    *)
(***************************************************************************)
EXTENDS Integers, FiniteSets, SequencesExt, TLC

\* Op(x), with x computed first.
Of(Op(_), x) == CHOOSE z \in {Op(y) : y \in {x}} : TRUE

Stepwise(Op(_, _), start, seq) ==
  LET half == Len(seq) \div 2
      Pass(s, part) ==
        FoldLeft(LAMBDA x, e : Of(LAMBDA y : Op(y, e), x), s, part)
  IN Of(LAMBDA s : Pass(s, SubSeq(seq, half + 1, Len(seq))),
        Of(LAMBDA s : Pass(s, SubSeq(seq, 1, half)), start))
=============================================================================
