------------------------------- MODULE MCAlu --------------------------------
(* Every instruction, on operands around all zeros and all ones and one    *)
(* alternation; immediates around zero and minus one, all the counts of    *)
(* shifts, and x0 and one register twice among the operands.               *)
EXTENDS Alu, MCFields

Repeated(b) == Word4(b, b, b, b)

Around(b, bits) ==
  {Repeated(b)} \cup
    {[Repeated(b) EXCEPT ![i \div 8] =
        IF Bit(b, i % 8) = 1 THEN @ - Power(i % 8) ELSE @ + Power(i % 8)]
      : i \in bits}

EndsOfBytes == {i \in Bits : i % 8 \in {0, 7}}

(* rd is x0 or x1, rs1 x1 or x0; upper are the twelve highest bits.        *)
Encoded(opcode, function, rs1, upper) ==
  Word4(opcode, 16 * function + 128 * rs1,
        16 * (upper % 16), upper \div 16)

Alternate(function) == IF function \in {0, 5} THEN {0, 1024} ELSE {0}

OpWords ==
  UNION {{Encoded(51, f, 1, 2 + m) : m \in Alternate(f)} : f \in 0 .. 7}
    \cup {Encoded(51, 0, rs1, 1024 + rs2) : rs1 \in {0, 1}, rs2 \in {0, 1}}

BranchWords == {Encoded(99, f, 1, 2) : f \in {0, 1, 4, 5, 6, 7}}

OpImmWords ==
  {Encoded(19, f, 1, i) : f \in {0, 2, 3, 4, 6, 7},
     i \in UNION {{0, 4095} \cup {2 ^ n, 4095 - 2 ^ n} : n \in 0 .. 11}}
    \cup {Encoded(19, f, 1, n) : f \in {1, 5}, n \in 0 .. 31}
    \cup {Encoded(19, 5, 1, 1024 + n) : n \in 0 .. 31}

MCInstructions == OpWords \cup BranchWords \cup OpImmWords

MCSeconds   == Around(0, Bits) \cup Around(255, EndsOfBytes)
MCFirsts    == MCSeconds \cup {Repeated(170)}
MCLeftovers == {Repeated(255)}
=============================================================================
