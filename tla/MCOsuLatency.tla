---------------------------- MODULE MCOsuLatency ----------------------------
(* Bounds of the runs of OsuLatency: counts up to 4, large from 3, elements*)
(* of 2 bytes, INT_MAX = 15.  Argument lists: none; every kind of option, *)
(* those of the other benchmarks by their long names too, and every way to *)
(* be refused; an option after an operand; minima of 0 and below, in the   *)
(* middle of the range, above it, and two that do not fit an int (17 is    *)
(* negative as one, 32 is 0); a repeated option, an error after a good one.*)
EXTENDS OsuLatency

MCRank == 0 .. 1
MCSender == 0

Number(opt, value) == [opt |-> opt, value |-> value]
Message(form, min, max) == [opt |-> "m", form |-> form, min |-> min, max |-> max]

MCArgvs ==
    {<<>>}
    \cup {<<Number(opt, value)>> :
              opt \in {"h", "v", "f", "i", "x", "t", "R", "W", "a", "V", "p", "M", "d", "r", "bad"},
              value \in {-1, 0, 1, 2}}
    \cup {<<Number("w", value)>> : value \in {"dynamic", "heap"}}
    \cup {<<Number("s", value)>> : value \in {"fence", "none"}}
    \cup {<<Number("operand", 0), Number("i", 2)>>, <<Number("W", 0), Number("i", 1)>>}
    \cup {<<Message(form, min, max)>> : form \in Forms, min \in {0, 3, 6, 17, 32}, max \in {-1, 8}}
    \cup {<<Number("i", 2), Number("x", 0)>>, <<Number("i", 1), Number("i", 0)>>,
          <<Message("MIN:", 2, 0), Number("x", 2), Message(":MAX", 0, 4)>>}

(* The maximum message size of two bytes, one element.                     *)
MCSmallMax == {<<Message("MAX", 0, 2)>>}
=============================================================================
