------------------------------- MODULE MCOmok -------------------------------
(* A small instance of PnoxOmok for TLC.                                   *)
EXTENDS PnoxOmok

\* Lines like those of omok.cfg, short enough for the small board.
Config ==
  << [flag |-> "D", p |-> <<1, MAN, 1>>],
     [flag |-> "D", p |-> <<80, MAN, MAN>>],
     [flag |-> "A", p |-> <<MAN, COM, -10, MAN>>],
     [flag |-> "A", p |-> <<1, COM, COM, 1>>] >>
=============================================================================
