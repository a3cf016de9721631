--------------------------------- MODULE Acl ---------------------------------
(***************************************************************************)
(* The allowlist of src/src/ntp/protection.rs and the parser of its        *)
(* configured prefix, src/src/ntp/cidr_parse.rs.  An IPv4 address and a    *)
(* mask are their four octets.                                             *)
(***************************************************************************)
EXTENDS Integers, Sequences

ACL_MAX_ENTRIES == 8

Octets == 1 .. 4

(* The text of a prefix: its numbers, however many, and the one after "/".  *)
(* Some is a set of one, None the empty set.                                *)
ParseIpv4Cidr(s) ==
  IF Len(s.octets) = 4 /\ (\A i \in Octets : s.octets[i] \in 0 .. 255) /\ s.prefix \in 0 .. 32
  THEN {s} ELSE {}

(* How many of the low n bits of a word fall into octet i. *)
LowIn(i, n) ==
  LET below == 8 * (4 - i)
  IN  IF n <= below THEN 0 ELSE IF n - below >= 8 THEN 8 ELSE n - below

(* !((1 << n) - 1), where a shift by 32 is one by 0 *)
Above(n) == [i \in Octets |-> 256 - 2 ^ LowIn(i, n % 32)]

(* Mutant: no case of its own for the empty prefix. *)
MaskShifted(prefix_bits) == Above(32 - prefix_bits)

Mask(prefix_bits) ==
  IF prefix_bits = 0 THEN [i \in Octets |-> 0] ELSE Above(32 - prefix_bits)

(* Octet by octet; m has ones above zeros. *)
And(x, m) == [i \in Octets |-> x[i] - (x[i] % (256 - m[i]))]

Contains(entry, addr) == And(addr, entry.mask) = And(entry.network, entry.mask)

Allows(acl, addr) ==
  IF acl.entries = <<>> THEN acl.default_allow
  ELSE \E i \in DOMAIN acl.entries : Contains(acl.entries[i], addr)

AllowAll == [entries |-> <<>>, default_allow |-> TRUE]
DenyAll  == [entries |-> <<>>, default_allow |-> FALSE]

AddIpv4Cidr(acl, octets, prefix_bits) ==
  IF Len(acl.entries) >= ACL_MAX_ENTRIES THEN acl
  ELSE [acl EXCEPT !.entries = Append(@, [network |-> octets, mask |-> Mask(prefix_bits)])]

PrivateLan ==
  LET loopback == AddIpv4Cidr(DenyAll, <<127, 0, 0, 0>>, 8)
      classA   == AddIpv4Cidr(loopback, <<10, 0, 0, 0>>, 8)
      classB   == AddIpv4Cidr(classA, <<172, 16, 0, 0>>, 12)
  IN  AddIpv4Cidr(classB, <<192, 168, 0, 0>>, 16)

FromConfig(cidr) ==
  IF ParseIpv4Cidr(cidr) = {} THEN PrivateLan
  ELSE LET c == CHOOSE c \in ParseIpv4Cidr(cidr) : TRUE
       IN  AddIpv4Cidr(DenyAll, c.octets, c.prefix)

-----------------------------------------------------------------------------
(* Reference definitions: the well-formed prefixes, the private ranges of    *)
(* RFC 1918 with loopback, and bit k of an address, counted from the most   *)
(* significant one.                                                         *)

IsPrefix(s) == s \in [octets : [Octets -> 0 .. 255], prefix : 0 .. 32]

IsPrivate(a, b) ==
  a \in {10, 127} \/ (a = 172 /\ b \in 16 .. 31) \/ (a = 192 /\ b = 168)

Bit(addr, k) == (addr[(k \div 8) + 1] \div 2 ^ (7 - (k % 8))) % 2

(* A configured prefix lists the addresses that agree with its network in   *)
(* its first bits; without one the private ranges are listed.               *)
Listed(cidr, addr) ==
  IF IsPrefix(cidr) THEN \A k \in 0 .. cidr.prefix - 1 : Bit(addr, k) = Bit(cidr.octets, k)
  ELSE IsPrivate(addr[1], addr[2])
=============================================================================
