------------------------------ MODULE CoreBits ------------------------------
(***************************************************************************)
(* The operators ^ and | of C that CoreMark uses, on one, two, four, eight *)
(* and 16 bits: of the upper and of the lower half.                        *)
(***************************************************************************)
EXTENDS Integers

xor1(a, b) == (a + b) % 2
xor2(a, b) == 2 * xor1(a \div 2, b \div 2) + xor1(a % 2, b % 2)
xor4(a, b) == 4 * xor2(a \div 4, b \div 4) + xor2(a % 4, b % 4)
xor8(a, b) == 16 * xor4(a \div 16, b \div 16) + xor4(a % 16, b % 16)
xor(a, b) == 256 * xor8(a \div 256, b \div 256) + xor8(a % 256, b % 256)

or1(a, b) == IF a + b = 0 THEN 0 ELSE 1
or2(a, b) == 2 * or1(a \div 2, b \div 2) + or1(a % 2, b % 2)
or4(a, b) == 4 * or2(a \div 4, b \div 4) + or2(a % 4, b % 4)
or8(a, b) == 16 * or4(a \div 16, b \div 16) + or4(a % 16, b % 16)
or(a, b) == 256 * or8(a \div 256, b \div 256) + or8(a % 256, b % 256)

=============================================================================
