------------------------------ MODULE Uint128 ------------------------------
(***************************************************************************)
(* The two byte orders of an identifier (cbs/util/uuid.py).  PostgreSQL    *)
(* rows carry the bytes of the UUID; TigerBeetle objects carry the same    *)
(* identifier with the bytes of each half reversed.  An identifier is a    *)
(* tuple of 2 * HalfLen bytes: HalfLen is 8 in the code and any positive   *)
(* number here.                                                            *)
(***************************************************************************)
EXTENDS Integers

CONSTANT HalfLen

ASSUME HalfLenAssumption == HalfLen \in Nat \ {0}

ByteIndex == 1 .. 2 * HalfLen

\* Where a byte goes when each half is reversed.
Mirror(i) == IF i <= HalfLen THEN HalfLen + 1 - i ELSE 3 * HalfLen + 1 - i

\* uuid_to_uint128: the TigerBeetle form of the bytes of a UUID.
UuidToUint128(u) == [i \in ByteIndex |-> u[Mirror(i)]]

\* uint128_to_uuid: the bytes of the UUID behind a TigerBeetle identifier.
Uint128ToUuid(raw) == [i \in ByteIndex |-> raw[Mirror(i)]]

\* tb_id_to_uuid: 16 bytes taken as a UUID as they are, with no reversal.
TbIdToUuid(raw) == raw
=============================================================================
