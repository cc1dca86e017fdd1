----------------------------- MODULE OptionValues -----------------------------
(***************************************************************************)
(* dhcp4opts: how the values of options become bytes, and the getters that *)
(* turn the bytes of an options map back into values.  A value is a record *)
(* of its Go type and itself.  The getters of the library each have one    *)
(* option code; here the code is a parameter, as it is of GetIP, GetIPs    *)
(* and GetString, so that any code may hold any type.                      *)
(***************************************************************************)
EXTENDS Options, Functions

\* uint8, [4]byte, net.IP, []net.IP, string, []OptionCode, uint16, uint32, where
\* the addresses are IPv4 ones.
ValueTypes == {"DHCPMessageType", "SubnetMask", "IP", "IPs", "String", "OptionCodes",
               "Uint16", "Uint32", "nil"}
IsIPv4(ip) == ip \in Seq(Byte) /\ To4(ip) # Nil

IsValue(x) ==
  /\ x.type \in ValueTypes
  /\ x.type = "DHCPMessageType" => x.val \in Byte
  /\ x.type = "SubnetMask" => x.val \in Seq(Byte) /\ Len(x.val) = IPv4len
  /\ x.type = "IP" => IsIPv4(x.val)
  /\ x.type = "IPs" => x.val \in Seq(Seq(Byte)) /\ \A ip \in Range(x.val) : IsIPv4(ip)
  /\ x.type \in {"String", "OptionCodes"} => x.val \in Seq(Byte)
  /\ x.type = "Uint16" => x.val \in 0 .. Power(2) - 1
  /\ x.type = "Uint32" => x.val \in 0 .. Power(4) - 1

MarshalMessageType(d) == <<d>>
MarshalSubnetMask(s) == SubSeq(s, 1, IPv4len)

\* The first four bytes, whichever form the address has.
MarshalIP(ip) == SubSeq(ip, 1, IPv4len)

MarshalIPs(ips) == Joined([k \in DOMAIN ips |-> To4(ips[k])])
MarshalString(s) == s
MarshalOptionCodes(codes) == codes
MarshalUint16(u) == PutUint(2, u)
MarshalUint32(u) == PutUint(4, u)

MarshalValue(x) ==
  CASE x.type = "DHCPMessageType" -> MarshalMessageType(x.val)
    [] x.type = "SubnetMask" -> MarshalSubnetMask(x.val)
    [] x.type = "IP" -> MarshalIP(x.val)
    [] x.type = "IPs" -> MarshalIPs(x.val)
    [] x.type = "String" -> MarshalString(x.val)
    [] x.type = "OptionCodes" -> MarshalOptionCodes(x.val)
    [] x.type = "Uint16" -> MarshalUint16(x.val)
    [] x.type = "Uint32" -> MarshalUint32(x.val)
    [] x.type = "nil" -> <<>>

Add(o, key, x) == AddRaw(o, key, MarshalValue(x))

------------------------------------------------------------------------------
(* The getters *)

\* Whether v is n bytes: a Lexer is left without error and without data.
Exactly(n, v) == ~FinError(Consume(NewLexer(v), n))

GetDHCPMessageType(key, o) ==
  IF Exactly(1, Get(o, key)) THEN Get(o, key)[1] ELSE 0

GetSubnetMask(key, o) ==
  IF Exactly(IPv4len, Get(o, key)) THEN Get(o, key) ELSE Nil

\* Bytes after the fourth are ignored.
GetIP(key, o) ==
  IF Len(Get(o, key)) < IPv4len THEN Nil ELSE SubSeq(Get(o, key), 1, IPv4len)

\* All of the addresses, or nil when the last one is cut off.
GetIPs(key, o) ==
  LET v == Get(o, key)
      whole == Len(v) \div IPv4len IN
  IF Len(v) > whole * IPv4len THEN Nil
  ELSE [k \in 1 .. whole |-> SubSeq(v, (k - 1) * IPv4len + 1, k * IPv4len)]

GetString(key, o) == Get(o, key)

GetParameterRequestList(key, o) == Get(o, key)

NotPresent == "ErrOptionNotPresent"

\* Mutant: u is read before the call that sets it.
GetNumberEarly(n, key, o) ==
  IF key \notin DOMAIN o THEN [u |-> 0, err |-> NotPresent]
  ELSE [u |-> 0, err |-> IF Exactly(n, o[key]) THEN "nil" ELSE "FinError"]

\* The return statement names u and calls the method that sets it.  Go leaves
\* their order open; its compiler makes the call first.
GetNumber(n, key, o) ==
  IF key \notin DOMAIN o THEN [u |-> 0, err |-> NotPresent]
  ELSE [u |-> Uint(Read(NewLexer(o[key]), n)),
        err |-> IF Exactly(n, o[key]) THEN "nil" ELSE "FinError"]

GetMaximumDHCPMessageSize(key, o) == GetNumber(2, key, o)

\* In seconds: 2^32 of them in nanoseconds are still an int64.
GetIPAddressLeaseTime(key, o) == GetNumber(4, key, o)

------------------------------------------------------------------------------
(* What a getter of the right type promises after these values were added    *)
(* under one code: a list or a string is everything that was added, in order; *)
(* a single address is the first one; other values are read only if they are *)
(* the only ones.                                                            *)

Values(added) == [k \in DOMAIN added |-> added[k].val]

ReadsBack(key, o, added) ==
  LET type == added[1].type
      vals == Values(added)
      one == Len(added) = 1
      size == GetMaximumDHCPMessageSize(key, o)
      time == GetIPAddressLeaseTime(key, o) IN
  CASE type = "DHCPMessageType" ->
         GetDHCPMessageType(key, o) = IF one THEN vals[1] ELSE 0
    [] type = "SubnetMask" -> GetSubnetMask(key, o) = IF one THEN vals[1] ELSE Nil
    [] type = "IP" -> GetIP(key, o) = To4(vals[1])
    [] type = "IPs" ->
         LET all == Joined(vals) IN
         GetIPs(key, o) = [k \in DOMAIN all |-> To4(all[k])]
    [] type = "String" -> GetString(key, o) = Joined(vals)
    [] type = "OptionCodes" -> GetParameterRequestList(key, o) = Joined(vals)
    [] type = "Uint16" ->
         IF one THEN size = [u |-> vals[1], err |-> "nil"] ELSE size.err # "nil"
    [] type = "Uint32" ->
         IF one THEN time = [u |-> vals[1], err |-> "nil"] ELSE time.err # "nil"
    [] type = "nil" -> Get(o, key) = Nil
==============================================================================
