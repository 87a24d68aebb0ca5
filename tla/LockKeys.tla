------------------------------ MODULE LockKeys ------------------------------
(***************************************************************************)
(* The key of a customer's advisory lock: the first four bytes of the      *)
(* SHA-256 of the canonical e-mail, read as a signed 32-bit number         *)
(* (canonical_email_lock_key of migration 006).  pg_advisory_xact_lock     *)
(* takes an integer, so a key outside its range would be an error for the  *)
(* customers it belongs to, and two prefixes with one key would make       *)
(* customers wait for each other more often than the hash does.            *)
(***************************************************************************)
EXTENDS Integers

Byte == 0..255

\* The part of the digest that is read: bytes 0 to 3.
Prefix == [0..3 -> Byte]

MinInteger == -2147483648
MaxInteger == 2147483647
MaxUnsigned == 4294967295

\* A bigint: no 32-bit product or sum overflows on the way.
BigEndian(a, b, c, d) == a * 16777216 + b * 65536 + c * 256 + d

unsigned_value(digest) == BigEndian(digest[0], digest[1], digest[2], digest[3])

canonical_email_lock_key(digest) ==
    IF unsigned_value(digest) >= 2147483648
    THEN unsigned_value(digest) - 4294967296
    ELSE unsigned_value(digest)
=============================================================================
