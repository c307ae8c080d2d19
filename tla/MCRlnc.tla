------------------------------- MODULE MCRlnc -------------------------------
(***************************************************************************)
(* An instance of Rlnc for TLC: a payload of four chunks, so that three    *)
(* rows are eliminated, with coefficients that make a column without a     *)
(* pivot, a swap, a carry of gf_mul and dependent rows all happen.         *)
(***************************************************************************)
EXTENDS Rlnc

Seven == {0, 1, 2}          \* 0x07
High == {7, 4, 0}           \* 0x91

MCPayloads == {<<One, One, One, One>>, <<One, Seven, High, One>>, <<One, One, High, Zero>>}
MCVectors == {<<One, Zero, Zero, One>>, <<Zero, One, Zero, High>>, <<Zero, Zero, One, Zero>>,
              <<Zero, Seven, High, One>>, <<High, One, Seven, Zero>>,
              <<Seven, High, One, Seven>>, <<One, One, One, Zero>>, <<Zero, Zero, Zero, Seven>>}
=============================================================================
