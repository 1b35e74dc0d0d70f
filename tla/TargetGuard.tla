---------------------------- MODULE TargetGuard -----------------------------
(***************************************************************************)
(* The target guard of src/infrastructure/ssrf-guard.ts: which addresses a *)
(* webhook may go to.  The code tells the ranges apart octet by octet; the *)
(* theorems compare that with the blocks of addresses that are meant.      *)
(* Before it, src/domain/target-url.ts judges the target by its text.      *)
(***************************************************************************)
EXTENDS Integers, TLAPS

Octets == 0 .. 255

Ipv4 == [1 .. 4 -> Octets]

(* An IPv6 address and how it is written: with its last two hextets as an  *)
(* IPv4 address in dotted text, or all in hexadecimal.  Zeroes are left    *)
(* out as new URL and the resolver leave them out, the longest run.        *)
Hextets == 0 .. 65535

Ipv6 == [hextets : [1 .. 8 -> Hextets], dotted : BOOLEAN]

Zeroes == [i \in 1 .. 8 |-> 0]

One == [Zeroes EXCEPT ![8] = 1]

(* The addresses ::ffff:0:0/96, and the IPv4 address that ends one.        *)
IsMapped(h) == h[6] = 65535 /\ \A i \in 1 .. 5 : h[i] = 0

Embedded(h) == <<h[7] \div 256, h[7] % 256, h[8] \div 256, h[8] % 256>>

-----------------------------------------------------------------------------
IsPrivate(a) ==
    \/ a[1] = 10
    \/ a[1] = 172 /\ a[2] >= 16 /\ a[2] <= 31
    \/ a[1] = 192 /\ a[2] = 168
    \/ a[1] = 100 /\ a[2] >= 64 /\ a[2] <= 127

(* The address of the metadata service is compared before its range is.    *)
classifyIpv4(a) ==
    IF a = <<0, 0, 0, 0>> THEN "unspecified"
    ELSE IF a = <<169, 254, 169, 254>> THEN "cloud-metadata"
    ELSE IF a[1] = 127 THEN "loopback"
    ELSE IF IsPrivate(a) THEN "private"
    ELSE IF a[1] = 169 /\ a[2] = 254 THEN "link-local"
    ELSE "public"

(* A mapped address is told by its dotted text alone: written in           *)
(* hexadecimal it is judged by its first hextet, like any other.  A text   *)
(* that begins with "::" has no number there, which like 0 is in no range. *)
classifyIpv6(a) ==
    IF ~a.dotted /\ a.hextets = Zeroes THEN "unspecified"
    ELSE IF ~a.dotted /\ a.hextets = One THEN "loopback"
    ELSE IF a.dotted /\ IsMapped(a.hextets)
         THEN classifyIpv4(Embedded(a.hextets))
    ELSE IF a.hextets[1] >= 65152 /\ a.hextets[1] <= 65215 THEN "link-local"
    ELSE IF a.hextets[1] >= 64512 /\ a.hextets[1] <= 65023 THEN "private"
    ELSE "public"

(* version is what isIP says; 0 is an address the code does not know.      *)
classifyAddress(address) ==
    IF address.version = 4 THEN classifyIpv4(address.value)
    ELSE IF address.version = 6 THEN classifyIpv6(address.value)
    ELSE "private"

Addresses ==
    [version : {4}, value : Ipv4] \cup [version : {6}, value : Ipv6]

(* The hostname of new URL: whatever the client wrote, an IPv6 address is  *)
(* in hexadecimal.                                                         *)
hostname(address) ==
    IF address.version = 6
    THEN [version |-> 6,
          value   |-> [hextets |-> address.value.hextets, dotted |-> FALSE]]
    ELSE address

(* What is judged: a host that is an address by itself, a name by all that *)
(* the lookup answers, in the resolver's own writing.                      *)
Judged(host) ==
    IF host.kind = "literal" THEN {hostname(host.address)}
    ELSE IF host.resolves THEN host.records ELSE {}

(* The lookup must answer, with one record at least, and every address     *)
(* must be public.                                                         *)
Allowed(host) ==
    /\ Judged(host) # {}
    /\ \A address \in Judged(host) : classifyAddress(address) = "public"

(* A literal is as the client wrote it.                                    *)
Hosts ==
    [kind : {"literal"}, address : Addresses]
        \cup [kind : {"name"}, resolves : BOOLEAN, records : SUBSET Addresses]

(* What new URL finds in the text of a target, if it can be parsed.        *)
Urls ==
    [parses : BOOLEAN, protocol : {"https:", "http:", "other"},
     credentials : BOOLEAN, hosts : {{}} \cup {{host} : host \in Hosts}]

(* The target that a subscription is given: no other is ever stored.       *)
validateTargetUrl(url, allowInsecure) ==
    /\ url.parses
    /\ url.protocol = "https:" \/ (allowInsecure /\ url.protocol = "http:")
    /\ ~url.credentials
    /\ url.hosts # {}

(* parseAndGuard of subscription-service.ts: the text, then the host.      *)
TargetAccepted(url, allowInsecure, guardEnabled) ==
    /\ validateTargetUrl(url, allowInsecure)
    /\ guardEnabled => \A host \in url.hosts : Allowed(host)

-----------------------------------------------------------------------------
(* The blocks of addresses that are meant, by their first address and size.*)
Number(a) == 16777216 * a[1] + 65536 * a[2] + 256 * a[3] + a[4]

Block(first, size) == [first |-> Number(first), size |-> size]

Loopback    == Block(<<127, 0, 0, 0>>, 16777216)                 \* /8
PrivateTen  == Block(<<10, 0, 0, 0>>, 16777216)                  \* /8
Private172  == Block(<<172, 16, 0, 0>>, 1048576)                 \* /12
Private192  == Block(<<192, 168, 0, 0>>, 65536)                  \* /16
LinkLocal   == Block(<<169, 254, 0, 0>>, 65536)                  \* /16
CarrierNat  == Block(<<100, 64, 0, 0>>, 4194304)                 \* /10
Unspecified == Block(<<0, 0, 0, 0>>, 1)                          \* /32

Blocks == {Loopback, PrivateTen, Private172, Private192, LinkLocal, CarrierNat,
           Unspecified}

In(a, block) ==
    block.first <= Number(a) /\ Number(a) < block.first + block.size

(* An address is public exactly when it is in none of the blocks: no       *)
(* comparison of octets is off by one, none is missing (76-89).            *)
THEOREM PublicIsOutsideTheBlocks ==
    ASSUME NEW a \in Ipv4
    PROVE  classifyIpv4(a) = "public" <=> \A block \in Blocks : ~In(a, block)
<1>1. PICK w \in Octets, x \in Octets, y \in Octets, z \in Octets :
          a[1] = w /\ a[2] = x /\ a[3] = y /\ a[4] = z /\ a = <<w, x, y, z>>
    BY DEF Ipv4
<1> DEFINE this == 16777216 * w + 65536 * x + 256 * y + z
<1>b. /\ Number(a) = this
      /\ Loopback.first    = 2130706432 /\ Loopback.size    = 16777216
      /\ PrivateTen.first  =  167772160 /\ PrivateTen.size  = 16777216
      /\ Private172.first  = 2886729728 /\ Private172.size  = 1048576
      /\ Private192.first  = 3232235520 /\ Private192.size  = 65536
      /\ LinkLocal.first   = 2851995648 /\ LinkLocal.size   = 65536
      /\ CarrierNat.first  = 1681915904 /\ CarrierNat.size  = 4194304
      /\ Unspecified.first =          0 /\ Unspecified.size = 1
    BY <1>1, SMT
    DEF Number, Block, Loopback, PrivateTen, Private172, Private192, LinkLocal,
        CarrierNat, Unspecified
<1>c. /\ 2130706432 <= this /\ this < 2147483648 <=> w = 127
      /\ 167772160  <= this /\ this < 184549376  <=> w = 10
      /\ 2886729728 <= this /\ this < 2887778304 <=> w = 172 /\ x >= 16 /\ x <= 31
      /\ 3232235520 <= this /\ this < 3232301056 <=> w = 192 /\ x = 168
      /\ 2851995648 <= this /\ this < 2852061184 <=> w = 169 /\ x = 254
      /\ 1681915904 <= this /\ this < 1686110208 <=> w = 100 /\ x >= 64 /\ x <= 127
      /\ 0 <= this /\ this < 1 <=> w = 0 /\ x = 0 /\ y = 0 /\ z = 0
    BY SMT DEF Octets
<1>2. In(a, Loopback) <=> w = 127
    BY <1>b, <1>c, SMT DEF In
<1>3. In(a, PrivateTen) <=> w = 10
    BY <1>b, <1>c, SMT DEF In
<1>4. In(a, Private172) <=> w = 172 /\ x >= 16 /\ x <= 31
    BY <1>b, <1>c, SMT DEF In
<1>5. In(a, Private192) <=> w = 192 /\ x = 168
    BY <1>b, <1>c, SMT DEF In
<1>6. In(a, LinkLocal) <=> w = 169 /\ x = 254
    BY <1>b, <1>c, SMT DEF In
<1>7. In(a, CarrierNat) <=> w = 100 /\ x >= 64 /\ x <= 127
    BY <1>b, <1>c, SMT DEF In
<1>8. In(a, Unspecified) <=> a = <<0, 0, 0, 0>>
    BY <1>1, <1>b, <1>c, SMT DEF In
<1>9. classifyIpv4(a) = "public" <=>
          /\ a # <<0, 0, 0, 0>> /\ w # 127 /\ w # 10
          /\ ~(w = 172 /\ x >= 16 /\ x <= 31)
          /\ ~(w = 192 /\ x = 168)
          /\ ~(w = 169 /\ x = 254)
          /\ ~(w = 100 /\ x >= 64 /\ x <= 127)
    BY <1>1, SMT DEF classifyIpv4, IsPrivate
<1> QED
    BY <1>2, <1>3, <1>4, <1>5, <1>6, <1>7, <1>8, <1>9, SMT DEF Blocks

(* The two ranges of first hextets are the prefixes fe80::/10 and fc00::/7 *)
(* (ssrf-guard.ts 101-102).                                                *)
LEMMA Ipv6RangesArePrefixes ==
    ASSUME NEW first \in Hextets
    PROVE  /\ first >= 65152 /\ first <= 65215 <=> first \div 64 = 1018
           /\ first >= 64512 /\ first <= 65023 <=> first \div 512 = 126
<1>1. first \div 64 = 1018 <=> first >= 65152 /\ first <= 65215
    BY SMT DEF Hextets
<1>2. first \div 512 = 126 <=> first >= 64512 /\ first <= 65023
    BY SMT DEF Hextets
<1> QED  BY <1>1, <1>2

LEMMA HextetIsTwoOctets ==
    ASSUME NEW n \in Hextets
    PROVE  n \div 256 \in Octets /\ n % 256 \in Octets
<1>1. n \in Int /\ 0 <= n /\ n <= 65535
    BY DEF Hextets
<1>2. n % 256 \in 0 .. 255
    BY <1>1, SMT
<1>3. n \div 256 \in 0 .. 255
    BY <1>1, SMT
<1> QED  BY <1>2, <1>3 DEF Octets

LEMMA EmbeddedIsIpv4 ==
    ASSUME NEW h \in [1 .. 8 -> Hextets]
    PROVE  Embedded(h) \in Ipv4
<1>1. h[7] \in Hextets /\ h[8] \in Hextets
    OBVIOUS
<1> QED  BY <1>1, HextetIsTwoOctets DEF Embedded, Ipv4

(* What an address has to be outside of, as it is written: an IPv4 address *)
(* and a mapped one in dotted text of the blocks, any other IPv6 address   *)
(* of the prefixes fe80::/10 and fc00::/7, and neither :: nor ::1.         *)
OutsideIpv4(a) == \A block \in Blocks : ~In(a, block)

OutsideIpv6(h) ==
    /\ h[1] \div 64 # 1018
    /\ h[1] \div 512 # 126

Outside(address) ==
    IF address.version = 4 THEN OutsideIpv4(address.value)
    ELSE IF address.value.dotted /\ IsMapped(address.value.hextets)
         THEN OutsideIpv4(Embedded(address.value.hextets))
    ELSE /\ OutsideIpv6(address.value.hextets)
         /\ address.value.hextets \in {Zeroes, One} => address.value.dotted

(* classifyAddress calls public what is outside, and nothing else.         *)
LEMMA PublicIsOutside ==
    ASSUME NEW address \in Addresses
    PROVE  classifyAddress(address) = "public" <=> Outside(address)
<1>1. CASE address.version = 4
    <2>1. address.value \in Ipv4
        BY <1>1 DEF Addresses
    <2> QED
        BY <1>1, <2>1, PublicIsOutsideTheBlocks
        DEF classifyAddress, Outside, OutsideIpv4
<1>2. CASE address.version # 4
    <2> DEFINE a == address.value
               h == a.hextets
    <2>1. address.version = 6 /\ a \in Ipv6
        BY <1>2 DEF Addresses
    <2>2. h \in [1 .. 8 -> Hextets] /\ a.dotted \in BOOLEAN
        BY <2>1 DEF Ipv6
    <2>3. h[1] \in Hextets
        BY <2>2
    <2>4. classifyAddress(address) = classifyIpv6(a)
        BY <2>1 DEF classifyAddress
    <2> HIDE DEF a
    <2>5. CASE a.dotted /\ IsMapped(h)
        <3>1. classifyIpv6(a) = classifyIpv4(Embedded(h))
            BY <2>5 DEF classifyIpv6
        <3>2. Outside(address) <=> OutsideIpv4(Embedded(h))
            BY <2>1, <2>5 DEF Outside, a
        <3> QED
            BY <2>2, <2>4, <3>1, <3>2, EmbeddedIsIpv4, PublicIsOutsideTheBlocks
            DEF OutsideIpv4
    <2>6. CASE ~(a.dotted /\ IsMapped(h))
        <3>1. classifyIpv6(a) = "public" <=>
                  /\ h \in {Zeroes, One} => a.dotted
                  /\ ~(h[1] >= 65152 /\ h[1] <= 65215)
                  /\ ~(h[1] >= 64512 /\ h[1] <= 65023)
            BY <2>2, <2>6 DEF classifyIpv6
        <3>2. Outside(address) <=>
                  /\ OutsideIpv6(h)
                  /\ h \in {Zeroes, One} => a.dotted
            BY <2>1, <2>6 DEF Outside, a
        <3> QED
            BY <2>3, <2>4, <3>1, <3>2, Ipv6RangesArePrefixes DEF OutsideIpv6
    <2> QED  BY <2>5, <2>6
<1> QED  BY <1>1, <1>2

LEMMA HostnameTyped ==
    ASSUME NEW address \in Addresses
    PROVE  /\ hostname(address) \in Addresses
           /\ hostname(address).version = address.version
           /\ address.version = 4 => hostname(address) = address
           /\ address.version = 6 =>
                 /\ hostname(address).value.hextets = address.value.hextets
                 /\ ~hostname(address).value.dotted
<1>1. CASE address \in [version : {4}, value : Ipv4]
    BY <1>1 DEF hostname, Addresses
<1>2. CASE address \in [version : {6}, value : Ipv6]
    <2>1. address.version = 6 /\ address.value \in Ipv6
        BY <1>2
    <2>2. [hextets |-> address.value.hextets, dotted |-> FALSE] \in Ipv6
        BY <2>1 DEF Ipv6
    <2> QED  BY <2>1, <2>2 DEF hostname, Addresses
<1> QED  BY <1>1, <1>2 DEF Addresses

LEMMA JudgedTyped ==
    ASSUME NEW host \in Hosts
    PROVE  Judged(host) \subseteq Addresses
<1>1. CASE host.kind = "literal"
    BY <1>1, HostnameTyped DEF Judged, Hosts
<1>2. CASE host.kind # "literal"
    BY <1>2 DEF Judged, Hosts
<1> QED  BY <1>1, <1>2

(* A host is allowed exactly when there is an address to judge and each is *)
(* outside, as it is written; a lookup that fails or answers nothing is    *)
(* never a permission (ssrf-guard.ts 29-59).                               *)
THEOREM AllowedIsOutside ==
    ASSUME NEW host \in Hosts
    PROVE  Allowed(host) <=>
               /\ Judged(host) # {}
               /\ \A address \in Judged(host) : Outside(address)
<1>1. \A address \in Judged(host) :
          classifyAddress(address) = "public" <=> Outside(address)
    BY JudgedTyped, PublicIsOutside
<1> QED  BY <1>1 DEF Allowed

(* Its limit: a literal reaches the guard in hexadecimal, so for a mapped  *)
(* one no IPv4 address is looked at, and it is allowed.  The comparison of *)
(* ssrf-guard.ts 95-98 concerns what a lookup answers only.                *)
THEOREM MappedLiteralIsNotUnmapped ==
    ASSUME NEW host \in Hosts, host.kind = "literal", host.address.version = 6,
           IsMapped(host.address.value.hextets)
    PROVE  Allowed(host)
<1> DEFINE a == hostname(host.address)
           h == host.address.value.hextets
<1>1. host.address \in Addresses
    BY DEF Hosts
<1>2. /\ a.version = 6 /\ a.value.hextets = h /\ ~a.value.dotted
    BY <1>1, HostnameTyped
<1>3. h[1] = 0 /\ h[6] = 65535
    BY DEF IsMapped
<1>4. h # Zeroes /\ h # One
    BY <1>3 DEF Zeroes, One
<1>5. OutsideIpv6(h)
    BY <1>3, SMT DEF OutsideIpv6
<1> HIDE DEF a
<1>6. Outside(a)
    BY <1>2, <1>4, <1>5 DEF Outside
<1>7. Judged(host) = {a}
    BY DEF Judged, a
<1> QED  BY <1>6, <1>7, AllowedIsOutside

(* With both settings as they are by default, every target of a stored     *)
(* subscription is https and has a host with an address; each IPv4 address *)
(* it names or resolves to, mapped ones in dotted text included, is in no  *)
(* block (target-url.ts 22-60, ssrf-guard.ts 29-59).                       *)
THEOREM AcceptedTargetsAreOutside ==
    ASSUME NEW url \in Urls, TargetAccepted(url, FALSE, TRUE)
    PROVE  /\ url.protocol = "https:"
           /\ \E host \in url.hosts :
                 /\ Judged(host) # {}
                 /\ \A address \in Judged(host) : Outside(address)
<1>1. url.protocol = "https:" /\ url.hosts # {}
    BY DEF TargetAccepted, validateTargetUrl
<1>2. PICK host \in url.hosts : host \in Hosts
    BY <1>1 DEF Urls
<1>3. Allowed(host)
    BY DEF TargetAccepted
<1> QED  BY <1>1, <1>2, <1>3, AllowedIsOutside
=============================================================================
