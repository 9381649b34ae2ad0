--------------------------- MODULE SadKeysProofs ----------------------------
(***************************************************************************)
(* What SadKeys does to a key, for every key: the hexadecimal text is read *)
(* back as it was written, a C string keeps what has no zero byte, and the *)
(* key extensions do not overlap for the algorithms whose lengths agree.   *)
(***************************************************************************)
EXTENDS SadKeys, SequenceLemmas

\* The arithmetic of hexstr_to_char gives the value of every digit, in upper
\* and in lower case.
LEMMA NibbleOfDigit ==
  ASSUME NEW d \in 0..15, NEW upper \in BOOLEAN
  PROVE  Nibble(Digit(d, upper)) = d
<1>1. CASE d < 10
  BY <1>1 DEF Nibble, Digit
<1>2. CASE d >= 10 /\ upper
  BY <1>2 DEF Nibble, Digit
<1>3. CASE d >= 10 /\ ~upper
  BY <1>3 DEF Nibble, Digit
<1>4. QED
  BY <1>1, <1>2, <1>3

\* The length of a function on an initial segment of the naturals.
LEMMA LengthOf ==
  ASSUME NEW T, NEW n \in Nat, NEW s \in [1..n -> T]
  PROVE  s \in Seq(T) /\ Len(s) = n
<1>1. s \in Seq(T)
  BY SeqDef
<1>2. Len(s) \in Nat /\ 1..Len(s) = 1..n
  BY <1>1, LenProperties
<1>3. QED
  BY <1>1, <1>2

\* What Write leaves at a place of the buffer.
LEMMA WriteDomain ==
  ASSUME NEW buf, NEW off, NEW bs
  PROVE  DOMAIN Write(buf, off, bs) = DOMAIN buf
BY DEF Write

\* Where it writes there is what it writes.
LEMMA WriteInside ==
  ASSUME NEW buf, NEW off, NEW bs, NEW k \in DOMAIN buf, k - off \in 1..Len(bs)
  PROVE  Write(buf, off, bs)[k] = bs[k - off]
BY DEF Write

\* What lies before that place stays.
LEMMA WriteBehind ==
  ASSUME NEW buf, NEW off \in Nat, NEW bs,
         NEW k \in Nat, k \in DOMAIN buf, k <= off
  PROVE  Write(buf, off, bs)[k] = buf[k]
<1>1. k - off \notin 1..Len(bs)
  OBVIOUS
<1>2. QED
  BY <1>1 DEF Write

\* Where the two digits of byte j are in the text.
LEMMA DigitPlaces ==
  ASSUME NEW n \in Nat
  PROVE  /\ (2 * n) \div 2 = n
         /\ (2 * n) % 2 = 0
         /\ n >= 1 => (2 * n - 1) % 2 = 1 /\ (2 * n - 1 + 1) \div 2 = n
OBVIOUS

\* Reading back the text of a key gives the key, whatever its bytes are.
THEOREM HexRoundTrip ==
  ASSUME NEW key \in Seq(Byte), NEW upper \in BOOLEAN
  PROVE  hexstr_to_char(HexText(key, upper)) = key
<1> DEFINE n == Len(key)
           text == HexText(key, upper)
<1>0. n \in Nat /\ key \in [1..n -> Byte]
  BY LenProperties
<1>1. \A d \in 0..15 : Digit(d, upper) \in Int
  BY DEF Digit
<1>2. ASSUME NEW j \in 1..n
      PROVE  /\ 2 * j \in 1..(2 * n)
             /\ 2 * j - 1 \in 1..(2 * n)
             /\ text[2 * j] = Digit(key[j] % 16, upper)
             /\ text[2 * j - 1] = Digit(key[j] \div 16, upper)
  <2>1. /\ 2 * j \in 1..(2 * n) /\ 2 * j - 1 \in 1..(2 * n)
        /\ (2 * j) % 2 # 1 /\ (2 * j) \div 2 = j
        /\ (2 * j - 1) % 2 = 1 /\ (2 * j - 1 + 1) \div 2 = j
    BY <1>0, DigitPlaces
  <2>2. QED
    BY <2>1 DEF HexText
<1>3. \A b \in Byte : b \div 16 \in 0..15 /\ b % 16 \in 0..15 /\ 16 * (b \div 16) + (b % 16) = b
  BY DEF Byte
<1>4. text \in [1..(2 * n) -> Int]
  <2>1. ASSUME NEW i \in 1..(2 * n)
        PROVE  (IF i % 2 = 1 THEN Digit(key[(i + 1) \div 2] \div 16, upper)
                             ELSE Digit(key[i \div 2] % 16, upper)) \in Int
    <3>1. CASE i % 2 = 1
      <4>1. (i + 1) \div 2 \in 1..n
        BY <1>0, <3>1
      <4>2. key[(i + 1) \div 2] \in Byte
        BY <1>0, <4>1
      <4>3. QED
        BY <1>1, <1>3, <3>1, <4>2
    <3>2. CASE i % 2 # 1
      <4>1. i \div 2 \in 1..n
        BY <1>0, <3>2
      <4>2. key[i \div 2] \in Byte
        BY <1>0, <4>1
      <4>3. QED
        BY <1>1, <1>3, <3>2, <4>2
    <3>3. QED
      BY <3>1, <3>2
  <2>2. QED
    BY <2>1 DEF HexText
<1>5. Len(text) = 2 * n
  BY <1>0, <1>4, LengthOf
<1>6. ASSUME NEW j \in 1..n
      PROVE  16 * Nibble(text[2 * j - 1]) + Nibble(text[2 * j]) = key[j]
  <2>1. key[j] \in Byte
    BY <1>0
  <2>2. /\ Nibble(text[2 * j - 1]) = key[j] \div 16
        /\ Nibble(text[2 * j]) = key[j] % 16
    BY <1>2, <1>3, <2>1, NibbleOfDigit
  <2>3. QED
    BY <1>3, <2>1, <2>2
<1>7. (2 * n) \div 2 = n
  BY <1>0, DigitPlaces
<1>8. hexstr_to_char(text) = [j \in 1..n |-> key[j]]
  <2> HIDE DEF text
  <2>1. hexstr_to_char(text)
          = [j \in 1..n |-> 16 * Nibble(text[2 * j - 1]) + Nibble(text[2 * j])]
    BY <1>5, <1>7 DEF hexstr_to_char
  <2>2. QED
    BY <1>6, <2>1
<1>9. QED
  BY <1>0, <1>8

\* A C string is all of a key that has no zero byte.
LEMMA WholeString ==
  ASSUME NEW key \in Seq(Byte), NoZeros(key)
  PROVE  CString(key) = key
<1>0. Len(key) \in Nat /\ key \in [1..Len(key) -> Byte]
  BY LenProperties
<1>1. strlen(key) = Len(key)
  <2> DEFINE Ends(n) == (\A i \in 1..n : key[i] # 0) /\ (n = Len(key) \/ key[n + 1] = 0)
  <2>1. Len(key) \in 0..Len(key) /\ Ends(Len(key))
    BY <1>0 DEF NoZeros
  <2>2. ASSUME NEW n \in 0..Len(key), Ends(n) PROVE n = Len(key)
    <3>1. n # Len(key) => n + 1 \in 1..Len(key)
      BY <1>0, <2>2, StrictlyBelowTop
    <3>2. QED
      BY <2>2, <3>1 DEF NoZeros
  <2>3. strlen(key) = CHOOSE n \in 0..Len(key) : Ends(n)
    BY DEF strlen
  <2> HIDE DEF Ends
  <2>4. QED
    BY <2>1, <2>2, <2>3
<1>2. SubSeq(key, 1, Len(key)) = [i \in 1..Len(key) |-> key[i]]
  BY <1>0
<1>3. QED
  BY <1>0, <1>1, <1>2 DEF CString

\* The kernel takes from the message what was copied into it, if the length of
\* the key is the declared one and the extension is long enough for it.
LEMMA TakenFromMessage ==
  ASSUME NEW alg \in Algorithms, alg # SADB_EALG_NONE, alg # SADB_X_EALG_AESCBC,
         NEW key \in Seq(Byte), 8 * Len(key) = EncryptBits(alg),
         NEW aalg, NEW akey,
         NEW msg1, msg1 = WithEncryptKey(EmptyBuffer, alg, key),
         NEW msg2, msg2 = WithAuthKey(msg1, AuthOffset(alg), aalg, akey)
  PROVE  KeyTaken(msg2, EncryptOffset, EncryptBits(alg)) = key
<1> DEFINE n == Len(key)
<1>0. n \in Nat /\ key \in [1..n -> Byte]
  BY LenProperties
<1>1. /\ EncryptBits(alg) \in {64, 192}
      /\ n = EncryptBits(alg) \div 8 /\ n \in {8, 24}
      /\ AuthOffset(alg) = 8 + n
  <2>1. CASE alg = SADB_EALG_DESCBC
    <3>1. EncryptBits(alg) = 64
      BY <2>1 DEF EncryptBits, EALG_DESCBC_KEY_BITS
    <3>2. EncryptExtLen(alg) = 2
      BY <2>1 DEF EncryptExtLen, KeyExtLen, HeaderLen, EALG_DESCBC_KEY_BITS
    <3>3. n = 8
      BY <1>0, <3>1
    <3>4. QED
      BY <3>1, <3>2, <3>3 DEF AuthOffset
  <2>2. CASE alg # SADB_EALG_DESCBC
    <3>1. EncryptBits(alg) = 192
      BY <2>2 DEF EncryptBits, EALG_3DESCBC_KEY_BITS
    <3>2. EncryptExtLen(alg) = 4
      BY <2>2 DEF EncryptExtLen, KeyExtLen, HeaderLen, EALG_3DESCBC_KEY_BITS
    <3>3. n = 24
      <4>1. \A k \in Nat : 8 * k = 192 => k = 24
        OBVIOUS
      <4>2. 8 * n = 192
        BY <3>1
      <4> HIDE DEF n
      <4>3. QED
        BY <1>0, <4>1, <4>2
    <3>4. QED
      BY <3>1, <3>2, <3>3 DEF AuthOffset
  <2>3. QED
    BY <2>1, <2>2
<1> HIDE DEF n
<1>2. ASSUME NEW i \in 1..n
      PROVE  /\ 8 + i \in Nat /\ 8 + i \in 1..256 /\ 8 + i - 8 = i /\ i \in 1..Len(key)
             /\ 8 + n \in Nat /\ 8 + n + 8 \in Nat
             /\ 8 + i <= 8 + n /\ 8 + i <= 8 + n + 8
  <2>1. n \in Nat /\ n <= 24
    BY <1>1
  <2>2. QED
    BY <2>1 DEF n
<1>3. DOMAIN msg1 = 1..256 /\ \A i \in 1..n : msg1[8 + i] = key[i]
  <2> DEFINE h == Write(EmptyBuffer, EncryptOffset,
                        Header(EncryptExtLen(alg), SADB_EXT_KEY_ENCRYPT, EncryptBits(alg)))
  <2>1. DOMAIN h = 1..256
    BY DEF Write, EmptyBuffer
  <2>2. msg1 = Write(h, 8, key)
    BY DEF WithEncryptKey, WriteKey, EncryptOffset, HeaderLen
  <2> HIDE DEF h
  <2>3. DOMAIN msg1 = 1..256
    BY <2>1, <2>2, WriteDomain
  <2>4. ASSUME NEW i \in 1..n PROVE msg1[8 + i] = key[i]
    <3>1. 8 + i \in DOMAIN h /\ 8 + i - 8 \in 1..Len(key) /\ 8 + i - 8 = i
      BY <1>2, <2>1
    <3>2. Write(h, 8, key)[8 + i] = key[8 + i - 8]
      BY <3>1, WriteInside
    <3>3. QED
      BY <2>2, <3>1, <3>2
  <2>5. QED
    BY <2>3, <2>4
<1>4. \A i \in 1..n : msg2[8 + i] = msg1[8 + i]
  <2>1. CASE aalg = SADB_AALG_NONE
    BY <2>1 DEF WithAuthKey
  <2>2. CASE aalg # SADB_AALG_NONE
    <3> DEFINE w == Header(KeyExtLen(AALG_SHA1HMAC_KEY_BITS),
                           SADB_EXT_KEY_AUTH, AALG_SHA1HMAC_KEY_BITS)
               h == Write(msg1, 8 + n, w)
    <3>1. msg2 = Write(h, 8 + n + 8, akey)
      BY <1>1, <2>2 DEF WithAuthKey, WriteKey, HeaderLen
    <3> HIDE DEF w
    <3>2. DOMAIN h = 1..256
      BY <1>3, WriteDomain
    <3>3. ASSUME NEW i \in 1..n PROVE msg2[8 + i] = msg1[8 + i]
      <4>1. /\ 8 + i \in Nat /\ 8 + i \in 1..256
            /\ 8 + n \in Nat /\ 8 + n + 8 \in Nat
            /\ 8 + i <= 8 + n /\ 8 + i <= 8 + n + 8
        BY <1>2
      <4>2. 8 + i \in DOMAIN msg1 /\ 8 + i \in DOMAIN h
        BY <1>3, <3>2, <4>1
      <4>3. h[8 + i] = msg1[8 + i]
        BY <4>1, <4>2, WriteBehind
      <4> HIDE DEF h
      <4>4. Write(h, 8 + n + 8, akey)[8 + i] = h[8 + i]
        BY <4>1, <4>2, WriteBehind
      <4>5. QED
        BY <3>1, <4>3, <4>4
    <3>4. QED
      BY <3>3
  <2>3. QED
    BY <2>1, <2>2
<1>5. KeyTaken(msg2, EncryptOffset, EncryptBits(alg)) = [i \in 1..n |-> msg2[8 + i]]
  BY <1>1 DEF KeyTaken, EncryptOffset, HeaderLen
<1>6. [i \in 1..n |-> msg2[8 + i]] = [i \in 1..n |-> key[i]]
  BY <1>3, <1>4
<1>7. QED
  BY <1>0, <1>5, <1>6

\* How far an entry has come, and that its node and its message are those its
\* configuration makes.
KeyInv ==
  /\ conf \in Conf
  /\ at \in {"configured", "read", "sent"}
  /\ at = "configured" => msg = EmptyBuffer
  /\ at # "configured" =>
       \E upper \in BOOLEAN :
         node.encryption_key = ReadKey(conf.encryption_key, upper)
  /\ at = "read" => msg = EmptyBuffer
  /\ at = "sent" =>
       msg = WithAuthKey(
               WithEncryptKey(EmptyBuffer, conf.encryption_alg, node.encryption_key),
               AuthOffset(conf.encryption_alg), conf.integrity_alg, node.integrity_key)

\* A DES or triple-DES key without a zero byte reaches the kernel as it is
\* configured: for every such key and every authentication key.
THEOREM SuitableKeyCorrect ==
  ASSUME Confs \subseteq Conf
  PROVE  Spec => []SuitableKeyTaken
<1>1. Init => KeyInv
  BY DEF Init, KeyInv
<1>2. KeyInv /\ [Next]_vars => KeyInv'
  <2> SUFFICES ASSUME KeyInv, [Next]_vars PROVE KeyInv'
    OBVIOUS
  <2>1. ASSUME NEW upper \in BOOLEAN, ReadKeys(upper) PROVE KeyInv'
    BY <2>1 DEF ReadKeys, KeyInv
  <2>2. CASE SendKeys
    BY <2>2 DEF SendKeys, KeyInv
  <2>3. CASE UNCHANGED vars
    BY <2>3 DEF vars, KeyInv
  <2>4. QED
    BY <2>1, <2>2, <2>3 DEF Next
<1>3. KeyInv => SuitableKeyTaken
  <2> SUFFICES ASSUME KeyInv, at = "sent",
                      Suits(conf.encryption_alg, conf.encryption_key)
               PROVE  EncryptKeyTaken = conf.encryption_key
    BY DEF SuitableKeyTaken
  <2> DEFINE key == conf.encryption_key
  <2>1. key \in Seq(Byte) /\ conf.encryption_alg \in Algorithms
    BY DEF KeyInv, Conf
  <2>2. node.encryption_key = key
    BY <2>1, HexRoundTrip, WholeString DEF KeyInv, ReadKey, Suits
  <2>3. QED
    BY <2>1, <2>2, TakenFromMessage DEF KeyInv, Suits, EncryptKeyTaken
<1>4. QED
  BY <1>1, <1>2, <1>3, PTL DEF Spec

=============================================================================
