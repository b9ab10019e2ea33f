\* Words of ten bits, the smallest that hold the addresses of the routines; operands around
\* every boundary; every opcode.
SPECIFICATION Spec
CONSTANTS
  W = 10
  StackSize = 32
  Operands = {0, 1, 2, 9, 10, 340, 511, 512, 513, 682, 960, 1022, 1023}
  Ops = {"lshiftright", "ashiftleft", "ashiftright", "eq", "neq", "sub", "lessthan",
         "lessthanorequal", "ulessthan", "ulessthanorequal", "eqbranch", "neqbranch",
         "call", "pushspadd", "neg", "xor", "mult", "poppcrel", "callpcrel", "load", "store", "nop"}
INVARIANT EmulationAgrees
PROPERTY Returns
