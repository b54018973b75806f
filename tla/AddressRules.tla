---------------------------- MODULE AddressRules ----------------------------
(***************************************************************************)
(* Which hosts and addresses a url reference may reach (sources/net.rs).   *)
(* An IPv4 address is its four octets, an IPv6 address its eight words, a  *)
(* domain its labels.                                                      *)
(***************************************************************************)
EXTENDS Integers, Sequences, SequencesExt

Block(network, prefix) == [network |-> network, prefix |-> prefix]

\* in_v4_block, in_v6_block: the first "prefix" bits agree, "width" bits a part.
InBlock(ip, block, width) ==
    \A i \in 1..Len(ip) :
        LET bits == block.prefix - (i - 1) * width
            rest == 2 ^ (width - bits)
        IN  \/ bits <= 0
            \/ bits >= width /\ ip[i] = block.network[i]
            \/ bits \in 1..(width - 1) /\ ip[i] \div rest = block.network[i] \div rest

BlockedV4 == {
    Block(<<0, 0, 0, 0>>, 8),       Block(<<10, 0, 0, 0>>, 8),
    Block(<<100, 64, 0, 0>>, 10),   Block(<<127, 0, 0, 0>>, 8),
    Block(<<169, 254, 0, 0>>, 16),  Block(<<172, 16, 0, 0>>, 12),
    Block(<<192, 0, 0, 0>>, 24),    Block(<<192, 0, 2, 0>>, 24),
    Block(<<192, 88, 99, 0>>, 24),  Block(<<192, 168, 0, 0>>, 16),
    Block(<<198, 18, 0, 0>>, 15),   Block(<<198, 51, 100, 0>>, 24),
    Block(<<203, 0, 113, 0>>, 24),  Block(<<224, 0, 0, 0>>, 4),
    Block(<<240, 0, 0, 0>>, 4)}

Ipv4IsPublic(ip) == \A b \in BlockedV4 : ~InBlock(ip, b, 8)

\* The words below are written in hexadecimal in the source.
W64   == 100    \* 0x64
WNat  == 65435  \* 0xff9b
W6to4 == 8194   \* 0x2002

Mapped == Block(<<0, 0, 0, 0, 0, 65535, 0, 0>>, 96)
Nat64  == Block(<<W64, WNat, 0, 0, 0, 0, 0, 0>>, 96)

BlockedV6 == {
    Block(<<W64, WNat, 1, 0, 0, 0, 0, 0>>, 48),   \* NAT64, local use
    Block(<<256, 0, 0, 0, 0, 0, 0, 0>>, 64),      \* 0x100, discard
    Block(<<8193, 0, 0, 0, 0, 0, 0, 0>>, 32),     \* 0x2001, Teredo
    Block(<<8193, 3512, 0, 0, 0, 0, 0, 0>>, 32),  \* 0x2001:db8, documentation
    Block(<<64512, 0, 0, 0, 0, 0, 0, 0>>, 7),     \* 0xfc00, ULA
    Block(<<65152, 0, 0, 0, 0, 0, 0, 0>>, 10),    \* 0xfe80, link-local
    Block(<<65216, 0, 0, 0, 0, 0, 0, 0>>, 10),    \* 0xfec0, site-local
    Block(<<65280, 0, 0, 0, 0, 0, 0, 0>>, 8)}     \* 0xff00, multicast

Octets(high, low) == <<high \div 256, high % 256, low \div 256, low % 256>>

Embeds(ip) == InBlock(ip, Mapped, 16) \/ InBlock(ip, Nat64, 16) \/ ip[1] = W6to4

EmbeddedV4(ip) ==
    IF ip[1] = W6to4 THEN Octets(ip[2], ip[3]) ELSE Octets(ip[7], ip[8])

Unspecified == [i \in 1..8 |-> 0]
Loopback    == [Unspecified EXCEPT ![8] = 1]

Ipv6IsPublic(ip) ==
    /\ ip \notin {Unspecified, Loopback}
    /\ IF Embeds(ip) THEN Ipv4IsPublic(EmbeddedV4(ip))
       ELSE \A b \in BlockedV6 : ~InBlock(ip, b, 16)

IpIsPublic(ip) == IF Len(ip) = 4 THEN Ipv4IsPublic(ip) ELSE Ipv6IsPublic(ip)

-----------------------------------------------------------------------------
(* What the rules are for: the ranges that are not for the public Internet *)
(* - this network, private, loopback, link-local, reserved, documentation, *)
(* multicast -, stated without the tables.                                 *)

Octet == 0..255
Word  == 0..65535
AddressesV4 == [1..4 -> Octet]
AddressesV6 == [1..8 -> Word]

ReservedV4(ip) ==
    \/ ip[1] = 0 \/ ip[1] = 10 \/ ip[1] = 127 \/ ip[1] \in 224..239 \/ ip[1] \in 240..255
    \/ ip[1] = 100 /\ ip[2] \in 64..127
    \/ ip[1] = 169 /\ ip[2] = 254
    \/ ip[1] = 172 /\ ip[2] \in 16..31
    \/ ip[1] = 192 /\ ip[2] = 168
    \/ ip[1] = 192 /\ ip[2] = 0 /\ ip[3] = 0
    \/ ip[1] = 192 /\ ip[2] = 0 /\ ip[3] = 2
    \/ ip[1] = 192 /\ ip[2] = 88 /\ ip[3] = 99
    \/ ip[1] = 198 /\ ip[2] \in {18, 19}
    \/ ip[1] = 198 /\ ip[2] = 51 /\ ip[3] = 100
    \/ ip[1] = 203 /\ ip[2] = 0 /\ ip[3] = 113

\* An address that holds an IPv4 address is what that one is.
ReservedV6(ip) ==
    \/ /\ \A i \in {1, 2, 3, 4, 5, 6, 7} : ip[i] = 0
       /\ ip[8] \in {0, 1}
    \/ /\ \A i \in {1, 2, 3, 4, 5} : ip[i] = 0
       /\ ip[6] = 65535 /\ ReservedV4(Octets(ip[7], ip[8]))
    \/ /\ ip[1] = W64 /\ ip[2] = WNat
       /\ \/ ip[3] = 1
          \/ /\ \A i \in {3, 4, 5, 6} : ip[i] = 0
             /\ ReservedV4(Octets(ip[7], ip[8]))
    \/ ip[1] = W6to4 /\ ReservedV4(Octets(ip[2], ip[3]))
    \/ ip[1] = 256 /\ \A i \in {2, 3, 4} : ip[i] = 0
    \/ ip[1] = 8193 /\ ip[2] \in {0, 3512}
    \/ \/ ip[1] \in 64512..65023 \/ ip[1] \in 65152..65215
       \/ ip[1] \in 65216..65279 \/ ip[1] \in 65280..65535

Reserved(ip) == \/ ip \in AddressesV4 /\ ReservedV4(ip)
                \/ ip \in AddressesV6 /\ ReservedV6(ip)

-----------------------------------------------------------------------------
Everywhere == <<"*">>

\* host_is_allowed: the host itself or a subdomain, by whole labels.
HostIsAllowed(labels, allow) ==
    Everywhere \in allow \/ \E a \in allow : IsSuffix(a, labels)

\* check_url, of a domain and of an address literal.
DomainIsAllowed(labels, allow) ==
    /\ Len(labels) > 1
    /\ labels[Len(labels)] \notin {"", "localhost"}
    /\ HostIsAllowed(labels, allow)

\* check_url and check_ip_literal: the rule a url breaks, if any.
BrokenRule(url, allow) ==
    CASE url.scheme \notin {"http", "https"} -> "scheme"
      [] url.scheme \in {"http", "https"} /\ url.userinfo -> "credentials"
      [] OTHER ->
            CASE url.ip # <<>> /\ ~IpIsPublic(url.ip) -> "address"
              [] url.ip # <<>> /\ IpIsPublic(url.ip) ->
                    IF Everywhere \in allow THEN "none" ELSE "host"
              [] OTHER -> IF DomainIsAllowed(url.domain, allow) THEN "none" ELSE "host"
=============================================================================
