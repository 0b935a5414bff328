------------------------------- MODULE KeyText -------------------------------
(***************************************************************************)
(* Private keys as text (src/common/crypto/base58.cpp, MathString.h,       *)
(* PrivateKeyDSA.cpp, src/library/Crypto.cpp): the program gets a key from *)
(* generateKeyPair() as Base58 text, and bind() passes the text on to the  *)
(* daemon, which reads the key from it; both keep the key they read.       *)
(*                                                                         *)
(* A key is a number.  A string of bytes or characters is a sequence of    *)
(* byte values or of positions in the alphabet.                            *)
(***************************************************************************)
EXTENDS Numerals

CONSTANTS
  ByteValues,       \* how many values a byte has
  AlphabetLength,   \* base58_alphabet.length()
  dsa_byte_length   \* bytes of a key

\* Botan::BigInt: the bytes of a number, the fewest it has.
BigIntDecode(bytes) == Value(bytes, ByteValues)
BigIntEncode(n) == Numeral(n, ByteValues, DigitCount(n, ByteValues))

\* All keys that fit; 0 is none.
PrivateKey == 1..Power(ByteValues, dsa_byte_length) - 1

ASSUME KeyTextAssumption ==
  /\ ByteValues \in Nat \ {0, 1} /\ AlphabetLength \in Nat \ {0, 1} /\ dsa_byte_length \in Nat \ {0}

-----------------------------------------------------------------------------
\* What the loop and the line behind it make of big_data: the remainders, the last in front.
EncodeLoop[big_data \in Nat] ==
  IF big_data >= AlphabetLength
  THEN Append(EncodeLoop[big_data \div AlphabetLength], big_data % AlphabetLength)
  ELSE IF big_data > 0 THEN <<big_data>> ELSE <<>>

\* Mutant: what the loop leaves is not put in front.
encodeToBase58_short(data) ==
  LET text == EncodeLoop[BigIntDecode(data)] IN IF text = <<>> THEN text ELSE Tail(text)

encodeToBase58(data) == EncodeLoop[BigIntDecode(data)]

\* The loop, from the last character to the first: big_data and multi after n of them.
DecodeLoop(base58) ==
  LET loop[n \in 0..Len(base58)] ==
        IF n = 0 THEN [big_data |-> 0, multi |-> 1]
        ELSE LET before == loop[n - 1]
             IN [big_data |-> before.big_data + before.multi * base58[Len(base58) - n + 1],
                 multi |-> before.multi * AlphabetLength]
  IN loop[Len(base58)].big_data

decodeFromBase58(base58) == BigIntEncode(DecodeLoop(base58))

\* PrivateKeyDSA::toBinaryVector(): the number at the end of a vector of fixed length.
toBinaryVector(key) ==
  LET vectorized_val == BigIntEncode(key)
  IN [i \in 1..dsa_byte_length - Len(vectorized_val) |-> 0] \o vectorized_val

\* PrivateKeyDSA::setAsBinaryVector(): the keys there may be; given 0, Botan makes up one.
setAsBinaryVector(bytes) == IF BigIntDecode(bytes) = 0 THEN PrivateKey ELSE {BigIntDecode(bytes)}

\* MathString.
toBase58(key) == encodeToBase58(toBinaryVector(key))
fromBase58(text) == setAsBinaryVector(decodeFromBase58(text))

\* A new private key and its text, which P2PNode::bind() is called with.
generateKeyPair == {[key |-> key, text |-> toBase58(key)] : key \in PrivateKey}

-----------------------------------------------------------------------------
\* The text, in characters of the alphabet, is read as its key and no other.
ReadBack(pair) ==
  /\ fromBase58(pair.text) = {pair.key}
  /\ pair.text # <<>> /\ \A i \in DOMAIN pair.text : pair.text[i] \in 0..AlphabetLength - 1
=============================================================================
