---------------------------- MODULE MCSoundPath -----------------------------
(***************************************************************************)
(* A small instance of SoundPath: five samples for eight cycles, frames of *)
(* ten and eleven cycles, short periods, a short noise register and bytes  *)
(* of three bits.                                                          *)
(***************************************************************************)
EXTENDS SoundPath

Square(period, shift, negate, volume, duty) ==
    [period |-> period, shift |-> shift, negate |-> negate, volume |-> volume,
     duty |-> duty]

SomeSettings(v) ==
    CASE v = "square" ->
            {Square(2, 2, FALSE, 1, 0), Square(1, 1, TRUE, 2, 2),
             Square(2, 1, TRUE, 3, 3), Square(2, 0, FALSE, 1, 1),
             Square(0, 0, TRUE, 1, 1), Square(1, 1, FALSE, 0, 1)}
      [] v = "triangle" ->
            {[period |-> p, on |-> b] : p \in {1, 2, 4}, b \in BOOLEAN}
      [] v = "noise" ->
            {[period |-> p, volume |-> w, short |-> b] :
                p \in {1, 3}, w \in {0, 2}, b \in BOOLEAN}
      [] v = "dmc" ->
            {[period |-> p, loop |-> b, sample |-> n] :
                p \in {1, 2}, n \in {1, 2}, b \in BOOLEAN}

\* Steps of 1, 2, 3, ...
SomeTable == [d \in 0..MaxDac |-> (d * (d + 1)) \div 2]

\* The nearer a change is to the next sample, the later it weighs; whatever
\* its place, it weighs four.
SomeImpulse(fraction, tap) ==
    CASE tap = -2 -> 1 - (fraction \div 4)
      [] tap = -1 -> 1
      [] tap = 0  -> 2
      [] OTHER    -> fraction \div 4
=============================================================================
