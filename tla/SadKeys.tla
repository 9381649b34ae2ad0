------------------------------ MODULE SadKeys -------------------------------
(***************************************************************************)
(* The way of a SAD entry's keys from the configuration to the kernel, as  *)
(* bytes: readSAD_entry has hexstr_to_char turn the leaf's text into bytes *)
(* and copies them as a C string; pf_addsad copies that string behind the  *)
(* header of a key extension whose length goes by the algorithm, with the  *)
(* extension of the other key behind it; the kernel takes as many bits as  *)
(* the header says.                                                        *)
(*                                                                         *)
(* Both keys are configured; without its leaf a key is whatever malloc     *)
(* returned.  The buffers are large enough for the keys looked at.         *)
(***************************************************************************)
EXTENDS Integers, Sequences

CONSTANT Confs  \* the algorithms and keys of the entries looked at

VARIABLES
  conf,  \* the configured entry
  node,  \* its node: the two keys as C strings, without their zero byte
  msg,   \* the part of the SADB_ADD message where the keys are
  at     \* how far the entry has come: "configured", "read" or "sent"

vars == <<conf, node, msg, at>>

Byte == 0..255

\* constants.h
SADB_AALG_NONE         == 0
SADB_EALG_NONE         == 0
SADB_EALG_DESCBC       == 2
SADB_X_EALG_AESCBC     == 12
EALG_DESCBC_KEY_BITS   == 64
EALG_3DESCBC_KEY_BITS  == 192
EAL_AES_KEY_BITS       == 256
AALG_SHA1HMAC_KEY_BITS == 160

Algorithms == 0..255

Conf ==
  [encryption_alg : Algorithms, encryption_key : Seq(Byte),
   integrity_alg : Algorithms, integrity_key : Seq(Byte)]

-----------------------------------------------------------------------------
\* The character of a hexadecimal digit.
Digit(d, upper) ==
  CASE d < 10              -> 48 + d
    [] d >= 10 /\ upper    -> 55 + d
    [] d >= 10 /\ ~upper   -> 87 + d

\* A key as the text of a leaf of type hex-string, its colons removed.
HexText(key, upper) ==
  [i \in 1..(2 * Len(key)) |->
     IF i % 2 = 1 THEN Digit(key[(i + 1) \div 2] \div 16, upper)
                  ELSE Digit(key[i \div 2] % 16, upper)]

\* The value of a digit, from its character.
Nibble(c) == ((c % 32) + 9) % 25

hexstr_to_char(text) ==
  [j \in 1..(Len(text) \div 2) |-> 16 * Nibble(text[2 * j - 1]) + Nibble(text[2 * j])]

strlen(s) ==
  CHOOSE n \in 0..Len(s) :
    /\ \A i \in 1..n : s[i] # 0
    /\ n = Len(s) \/ s[n + 1] = 0

\* strcpy
CString(s) == SubSeq(s, 1, strlen(s))

-----------------------------------------------------------------------------
\* A buffer with bytes bs written behind its first off bytes.
Write(buf, off, bs) ==
  [i \in DOMAIN buf |-> IF i - off \in 1..Len(bs) THEN bs[i - off] ELSE buf[i]]

HeaderLen == 8

Header(len, type, bits) ==
  <<len, 0, type, 0, bits % 256, bits \div 256, 0, 0>>

\* sadb_key_len, in words of eight bytes, for a key of so many bits.
KeyExtLen(bits) == (HeaderLen + bits \div 8 + 7) \div 8

\* Mutant of EncryptExtLen: the length is that of a DES key.
EncryptExtLenDes(alg) == KeyExtLen(EALG_DESCBC_KEY_BITS)

EncryptExtLen(alg) ==
  KeyExtLen(IF alg = SADB_EALG_DESCBC THEN EALG_DESCBC_KEY_BITS
                                      ELSE EALG_3DESCBC_KEY_BITS)

EncryptBits(alg) ==
  CASE alg = SADB_EALG_DESCBC   -> EALG_DESCBC_KEY_BITS
    [] alg = SADB_X_EALG_AESCBC -> EAL_AES_KEY_BITS
    [] OTHER                    -> EALG_3DESCBC_KEY_BITS

EncryptOffset == 0

\* Where the extension behind that of the encryption key begins.
AuthOffset(alg) == IF alg = SADB_EALG_NONE THEN 0 ELSE 8 * EncryptExtLen(alg)

\* A key extension written at an offset: its header, then the key.
WriteKey(buf, off, len, type, bits, key) ==
  Write(Write(buf, off, Header(len, type, bits)), off + HeaderLen, key)

SADB_EXT_KEY_AUTH == 8

SADB_EXT_KEY_ENCRYPT == 9

\* bzero
EmptyBuffer == [i \in 1..256 |-> 0]

WithEncryptKey(buf, alg, key) ==
  IF alg = SADB_EALG_NONE
    THEN buf
    ELSE WriteKey(buf, EncryptOffset, EncryptExtLen(alg),
                  SADB_EXT_KEY_ENCRYPT, EncryptBits(alg), key)

\* AALG_MD5HMAC_KEY_BITS is 160 as well: both branches write the same.
WithAuthKey(buf, off, alg, key) ==
  IF alg = SADB_AALG_NONE
    THEN buf
    ELSE WriteKey(buf, off, KeyExtLen(AALG_SHA1HMAC_KEY_BITS),
                  SADB_EXT_KEY_AUTH, AALG_SHA1HMAC_KEY_BITS, key)

-----------------------------------------------------------------------------
Init ==
  /\ conf \in Confs
  /\ node = [encryption_key |-> << >>, integrity_key |-> << >>]
  /\ msg = EmptyBuffer
  /\ at = "configured"

ReadKey(key, upper) == CString(hexstr_to_char(HexText(key, upper)))

\* readSAD_entry, its leaves key.
ReadKeys(upper) ==
  /\ at = "configured"
  /\ node' = [encryption_key |-> ReadKey(conf.encryption_key, upper),
              integrity_key  |-> ReadKey(conf.integrity_key, upper)]
  /\ at' = "read"
  /\ UNCHANGED <<conf, msg>>

\* pf_addsad, its key extensions.
SendKeys ==
  /\ at = "read"
  /\ msg' = WithAuthKey(
              WithEncryptKey(msg, conf.encryption_alg, node.encryption_key),
              AuthOffset(conf.encryption_alg), conf.integrity_alg, node.integrity_key)
  /\ at' = "sent"
  /\ UNCHANGED <<conf, node>>

Next == (\E upper \in BOOLEAN : ReadKeys(upper)) \/ SendKeys

Spec == Init /\ [][Next]_vars

\* What the kernel takes for the key: as many bits as the header says.
KeyTaken(buf, off, bits) == [i \in 1..(bits \div 8) |-> buf[off + HeaderLen + i]]

EncryptKeyTaken == KeyTaken(msg, EncryptOffset, EncryptBits(conf.encryption_alg))

-----------------------------------------------------------------------------
NoZeros(key) == \A i \in 1..Len(key) : key[i] # 0

\* The key has the length pf_addsad writes for the algorithm, and no zero byte
\* at which a C string would end.
Suits(alg, key) ==
  /\ alg # SADB_EALG_NONE
  /\ alg # SADB_X_EALG_AESCBC
  /\ 8 * Len(key) = EncryptBits(alg)
  /\ NoZeros(key)

(***************************************************************************)
(* DES and triple-DES keys without a zero byte reach the kernel as they    *)
(* are configured, whatever the authentication key is.  No AES key does:   *)
(* pf_addsad declares 256 bits for it in an extension of 192.              *)
(***************************************************************************)
SuitableKeyTaken ==
  at = "sent" /\ Suits(conf.encryption_alg, conf.encryption_key)
    => EncryptKeyTaken = conf.encryption_key

=============================================================================
