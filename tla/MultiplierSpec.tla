--------------------------- MODULE MultiplierSpec ---------------------------
(***************************************************************************)
(* The rate grammar as the specification states it (section 4.1),         *)
(* independent of the code: <number>(<unit>)?(<op>)?, the unit scaling,   *)
(* the operation tag, and divide-by-count for every kind but percentage.  *)
(* A text is a sequence of lexemes (maximal digit runs and symbols); a    *)
(* value is an exact decimal n * 10^e / d.                                 *)
(***************************************************************************)
EXTENDS Integers, Sequences

CONSTANT None

Digits(v, len) == [lx |-> "digits", v |-> v, len |-> len]
Sym(s)         == [lx |-> "sym", s |-> s]
IsDigits(l)    == l.lx = "digits"

UnitWords == {"bps", "kbps", "mbps", "gbps", "pps", "kpps", "mpps", "%"}
OpWords   == {"+", "-"}

\* <number>: an unsigned integer or decimal.
IsNumber(t) ==
    \/ Len(t) = 1 /\ IsDigits(t[1])
    \/ Len(t) = 3 /\ IsDigits(t[1]) /\ t[2] = Sym(".") /\ IsDigits(t[3])

NumberValue(t) ==
    IF Len(t) = 1 THEN [n |-> t[1].v, d |-> 1]
    ELSE [n |-> t[1].v * 10^t[3].len + t[3].v, d |-> 10^t[3].len]

\* The kind and factor each unit stands for; the empty unit is raw-factor.
Kind(u) == CASE u = <<>>                            -> "raw"
             [] u[1].s \in {"bps", "kbps", "mbps", "gbps"} -> "bps"
             [] u[1].s \in {"pps", "kpps", "mpps"}  -> "pps"
             [] OTHER                               -> "percentage"
\* The factor as a power of ten.
Factor(u) == CASE u = <<>>                           -> 0
               [] u[1].s \in {"kbps", "kpps"}       -> 3
               [] u[1].s \in {"mbps", "mpps"}       -> 6
               [] u[1].s = "gbps"                   -> 9
               [] OTHER                             -> 0

IsUnit(u)     == u = <<>> \/ (Len(u) = 1 /\ u[1].lx = "sym" /\ u[1].s \in UnitWords)
IsOp(o, upd)  == o = <<>> \/ (upd /\ Len(o) = 1 /\ o[1].lx = "sym" /\ o[1].s \in OpWords)
OpTag(o)      == IF o = <<>> THEN "abs" ELSE IF o[1].s = "+" THEN "add" ELSE "sub"

\* The ways of reading a text as number, unit and operator.
Readings(t, upd) ==
    { r \in {<<SubSeq(t, 1, ij[1]), SubSeq(t, ij[1] + 1, ij[2]), SubSeq(t, ij[2] + 1, Len(t))>> :
               ij \in {q \in (0..Len(t)) \X (0..Len(t)) : q[1] <= q[2]}} :
        IsNumber(r[1]) /\ IsUnit(r[2]) /\ IsOp(r[3], upd) }

\* decode(text, allow_update, divide_count): the rate with its operation,
\* or None when the text is not in the grammar.
GrammarDecode(t, upd, dc) ==
    IF t = None \/ Readings(t, upd) = {} THEN None
    ELSE LET r == CHOOSE r \in Readings(t, upd) : TRUE
             v == NumberValue(r[1])
             k == Kind(r[2])
         IN  [type  |-> k,
              value |-> [n |-> v.n, e |-> Factor(r[2]),
                         d |-> v.d * (IF k = "percentage" THEN 1 ELSE dc)],
              op    |-> OpTag(r[3])]

\* n1 * 10^k = n2 for k >= 0, without forming n1 * 10^k.
ShiftEq(n1, k, n2) == n2 % (10^k) = 0 /\ n1 = n2 \div (10^k)

\* Two decoded values n * 10^e / d are equal.
SameValue(a, b) ==
    IF a.e >= b.e THEN ShiftEq(a.n * b.d, a.e - b.e, b.n * a.d)
    ELSE ShiftEq(b.n * a.d, b.e - a.e, a.n * b.d)

=============================================================================
