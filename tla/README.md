# A TLA+ model of dhcp4

This directory holds TLA+ specifications of the DHCPv4 client, server and wire
format in this repository, configurations that model-check them with TLC, and
proofs checked by TLAPS. The modules are translated from the Go code; where a
comment or a test says otherwise, the code is what is modelled and the
disagreement is listed under *Findings*.

## The system

| Part | Code | What it does and keeps |
| --- | --- | --- |
| address allocator | `dhcp4server/ipalloc.go` | the map of allocated addresses; `grab`, `alloc` (a scan of the subnet), `free` |
| server | `dhcp4server/server.go` | the map `conns` from padded hardware address to address; `Serve` reads a packet, updates the maps, answers |
| client | `dhcp4client/client.go` | `DiscoverOffer`, `Request`, `Renew`, `SendAndReadOne`, `SimpleSendAndRead`, `Close`; each call runs a second goroutine that sends, retries, reads and feeds a channel |
| options codec | `options.go` | `Options`, a map from code to data; `AddRaw`, `Marshal`, `Unmarshal` |
| packet codec | `packet.go`, `dhcp4.go`, `const.go` | the 236-byte header, the magic cookie and the options |
| option values | `dhcp4opts/` | typed getters and encodings of single options |
| packet connections | `dhcp4client/conn_linux.go` | raw and UDP sockets; `UDPPacketConn` filters and strips headers |
| IPv4 and UDP headers | `dhcp4client/ipv4.go` | accessors and the Internet checksum |
| server command | `cmd/dhcp4server` | flags, then `New` and `Serve` once |

Clients and server meet only on the network. A client without an address sends
from 0.0.0.0, and the server then broadcasts its answer, so every client of the
segment reads it; the transaction ID alone decides who takes it. Inside the
server, `Serve` is the only goroutine that touches the maps. Inside the client,
the caller and the goroutine of `SimpleSendAndRead` share the channels `out` and
`errCh`, a context and a WaitGroup.

What makes this code hard to test, and is therefore what the properties are
about: two maps in the server updated by separate statements; writes that fail
after an address was assigned; the exhausted subnet and the end of the address
space, with addresses in two byte forms; the client's attempt timeouts, its own cancellation and the user's
deadline racing packets, a full channel and a closing connection; answers that
are late, duplicated or somebody else's; data longer than a length byte can
say; reads past the end of a packet that fail and let the next one succeed;
carries in a checksum. `PROJECT.json` lists these hazards at the line where each bites.

## Modules

```
Addresses ── Subnet ─┬─ AddressPool   (abstract)  ⇐ IPAlloc
    │                ├─ Server  ⇒ Leases (abstract)
    └── Packets ─────┤
            └─ ClientPackets ─┬─ Exchange (abstract) ⇐ Client
                              └─ System = Exchange + Server + network

Bytes ── AddressBytes ─┬─ Options ── OptionValues ── PacketFormat ── PacketCodec
                       ├─ Headers ── UDPConn ⇒ DatagramPort (abstract)
                       └─ IPAllocBytes  (beside IPAlloc)

BytesProofs ─┬─ PacketFormatProofs ── PacketCodecProofs
             ├─ HeadersProofs ── UDPConnProofs
             └─ ServerProofs   (Server and IPAllocBytes)
ClientProofs, SystemProofs
```

* **Addresses**: an address is the number its four bytes spell, below
  `AddrSpace` (2^32 in the code). A nil `net.IP` is `NoIP`. `writeIP` is what the
  header's codec does to nil: it becomes 0.0.0.0 and is read back as such.
* **Subnet**: the subnet as an interval (a CIDR block), the map `allocated`, which
  allocator and server share, and the pure part of the allocator.
  `lowestUsable` is what `alloc` returns.
* **IPAlloc**: `ipalloc.go` with the loop of `alloc` one round per step
  (`allocTake`, `allocSkip`, `allocNil`). Its specification is `AllocSpec`, as
  ServerProofs reads it together with Server. **AddressPool** is what a caller sees:
  one step per call.
* **Packets**: the fields of `Packet` that client and server act on. The type
  `invalid` stands for bytes that do not parse.
* **Server**: one round of `Serve`'s loop per step, one action per case of its
  switch and outcome within the case. Reads and writes may fail; `Serve` then
  returns, and `ServeAgain` calls it again on the same `Server`. **Leases** is
  the abstract lease table.
* **ClientPackets**: the packets the client builds (`macToID`, `DiscoverPacket`,
  `RequestPacket`).
* **Client**: the caller (`pc`) and the goroutine (`gpc`) step by step; every
  early return and both `select`s of `sendAndRead` are actions. `ctx` and `tctx`
  are the exchange's context and the attempt's, `out` and `errCh` the channels,
  `inbox` the unread packets of the connection. `sends`, `accepted` and
  `arrived` are history variables the code does not have. **Exchange** is what
  the caller of a call sees: it ends with some packet that has arrived and fits,
  or with an error of a kind that call can end with.
* **System**: the abstract clients of Exchange, the Server, and a network that
  keeps every packet ever sent and delivers any of them at any time: loss,
  delay, duplication and reordering. Client implements Exchange, which is why
  the clients may be abstract here.
* **Bytes**: the reads of the vendored `uio.Lexer`, in which a failed read
  consumes nothing and sets an error that only `FinError` looks at, and
  big-endian numbers. `MaxUint8` is the greatest byte, 255 in the code.
* **AddressBytes**: a `net.IP` as its bytes, in the 4-byte and the 16-byte form;
  `nextIP` with its carry and `ipToUint32`. **IPAllocBytes** sets them beside the
  numbers of IPAlloc, and assumes of the subnet what `net.ParseCIDR` gives: a mask
  of ones followed by zeros, and a network address without host bits.
* **Options**: the map, `Marshal` and `Unmarshal`, one round of a loop per step.
* **OptionValues**: each type's `MarshalBinary`, and the getters. A getter that
  only names its code and calls `GetIP`, `GetIPs` or `GetString` is that operator
  with the code as a parameter. In `GetMaximumDHCPMessageSize` a variable and the
  call that sets it are operands of one return; Go leaves their order open, and
  the model has that of its compiler.
* **PacketFormat**: the layout of the header, field by field in the order of
  `MarshalBinary`, and what a header loses on the wire (`Normal`).
* **PacketCodec**: a packet is built, options are added, `MarshalBinary` writes
  it, `ParsePacket` reads it, and it may be written again; or bytes of other
  origin are parsed, also by `UnmarshalBinary` into a Packet used before. The
  header is one step.
* **Headers**: `ipv4.go` on real bytes: getters, setters, `Encode`,
  `EncodePartial`, `IsValid`, the checksums and `udp4pkt`, and how `ReadFrom`
  and a receiver that verifies take a packet apart. Its many methods are pure,
  and UDPConn calls them.
* **UDPConn**: one `UDPPacketConn` in `ReadFrom`, one packet of the raw socket
  per step, others in `WriteTo`, and a program that builds headers with the
  methods of `ipv4.go` and calls setters in any order. A packet arrives whole or
  cut short. **DatagramPort** is a UDP socket: datagrams for the bound address
  come out in order, once, cut to the buffer.
* **MC\***: instances for TLC. Operators called a *mutant* in their comment are
  not part of the model: each is a plausible mistake in the definition that
  follows it, kept to show that a property would notice.

Left out of Server, Client and System: server name and boot file, HType,
Broadcast and GIAddr, which they copy and never read. Left out everywhere:
logging, and the socket calls behind a connection.

## Runs

| Run | Result | What it shows |
| --- | --- | --- |
| `ipalloc` | holds | the scan passes over taken addresses only, and does on bytes what it does on numbers; the keys of the map tell addresses apart in both forms; the allocator implements AddressPool; `alloc` returns |
| `server` | holds | `conns` and `allocated` agree, no address is given twice, a Discover is unanswered only when the subnet is full, answers carry the recorded address, a lease ends only by its owner's Decline or Release; the server implements Leases |
| `client` | holds | what a call returns fits what happened on the wire; no packet is read between calls or sent again once answered; Client implements Exchange; every call returns |
| `system` | holds | the address in an ACK a client returned is the one recorded for it; no two clients hold one address |
| `codec` | holds | what is written is read back, header, options and typed values; what is accepted has a whole header, each field from its own bytes; names end in their fields; a parsed map can be written; both directions return |
| `conn` | holds | the checksums of what is sent verify; setters leave other fields alone; `ReadFrom` panics only at a packet cut short; a `UDPPacketConn` implements DatagramPort; `ReadFrom` returns once there is a datagram for it |
| `client_noiface`, `client_forever`, `system_request`, `system_alike`, `codec_empty`, `codec_longform` | violated | the findings below |

Bounds, and why they are enough:

* `ipalloc`: a subnet of four addresses that ends at the last address there is,
  so the scan has a first, inner and last address and leaves through the wrap,
  with a carry on its way there.
* `server`: hardware addresses of 0 to 2 bytes of two values. They pad to four
  keys, several of them shared; two addresses for four clients, so the subnet
  runs out; requested addresses absent, outside and inside. State is not bounded
  otherwise.
* `client`: one client (calls of different clients share nothing) with a channel
  of capacity 1, so that it fills, two transmissions, so that there is a first
  and a last, one packet waiting in the socket. An offer, an ACK and non-DHCP
  bytes arrive without limit; the user's own packets have their transaction ID
  and another one, so that they match and do not. The counter `sends`
  saturates above the greatest value a property asks for.
* `system`: two clients, two addresses. The network is a set, so any number of
  deliveries of a packet is covered. The hardware addresses differ in the byte the
  transaction ID is made of (`MCApart`) or only in the other (`MCAlike`).
* `codec`: bytes 0 to 3, of which 0 and 3 are Pad and End too, so data of four
  bytes has two chunks; names of two and four bytes, addresses of two, a cookie of
  two. Headers with every field set and unset, names that just fit and just do
  not, a value of each type in both address forms, two of them added under the
  same or different codes. Parsed are all strings of up to six bytes as options,
  headers of every `hlen`, and a packet with every possible gap. `BufCap`
  stops the growth of the output in the one case where Marshal does not end.
* `conn`: real bytes and sizes. Two packets, so that one is skipped before the other is
  returned, with and without IP options, UDP and not; a payload that is empty
  and one that is odd, longer than the buffer, and makes the fold of its
  checksum carry twice. Setters get values with all bits set, two in any order.
  The bound address is nil, a port alone, or an address in its long form.

Deadlock is checked in all passing runs but `conn`, where a reader that panicked
stops.

Fairness: `ipalloc` and `codec` assume that a loop which waits for nothing
runs on, `conn` that a goroutine in `ReadFrom` does while its socket has a packet.
`client` assumes weak fairness of each goroutine of a call and of the attempt's
timer, which the Go scheduler and runtime clock give; nothing is assumed of the
network, the user or Close. A read with nothing to read ends by its 100 ms
deadline, which is a step of the goroutine.

## Proofs

TLAPS proves every safety property that a passing run checks (all invariants,
action properties and refinements) for every value of the constants that the
named assumptions allow. Each assumption is evaluated by a run, and says no more
than the code does:

* `AddrSpaceAssumption`, `NoIPAssumption`, `SubnetAssumption`: the subnet is a
  non-empty interval of addresses and nil is not one. The byte level adds
  `AddressesAssumption` (an address has `IPv4len` bytes and the space is what
  they can tell) and `CIDRAssumption` (above): for a mask like 255.0.255.0
  `IPNet.Contains` is no interval. `cmd/dhcp4server` and the tests get the
  subnet from `net.ParseCIDR`, which makes none.
* `BytesAssumption`, `AddressBytesAssumption`, `FormatAssumption`: a byte has a
  greatest value, addresses and fields have lengths, and a hardware address fits
  its length byte.
* `CodecAssumption`: headers and typed values have the types of their Go structs
  (`IsHeader`, `IsValue`); an address that is not nil has at least four bytes,
  as `writeIP` panics otherwise. The bytes that are parsed are any bytes.
* `HeadersAssumption`: a byte is 8 bits and an address four bytes; the offsets
  of ipv4.go are constants that fit no other size.
* `UDPConnAssumption`: a packet fits the 16-bit length field of its header, a
  program that builds headers itself says its payload's length in them, and
  addresses have an IPv4 form.

The byte-level proofs need facts about recursive functions and about sequences
of any length. **BytesProofs** has them: the values of a recursive function on
`0 .. n` exist (`Recursion`), a set of naturals with 0 and successors has them
all (`SetInduction`, from the well-foundedness of the naturals), and induction
over a length is membership of that length in such a set. From these follow what
`Power`, `Uint`, `PutUint` and `Joined` compute, that different bytes are
different numbers (`UintTells`), that `nextIP` adds one (`NextIPAddsOne`, for
any number of bytes), and that `IPNet.Contains` on bytes is membership in an
interval (`ContainsTellsBlock`): the bytes agree above the mask's mixed byte
exactly if the numbers they begin with do, and the mixed byte adds the remainder
modulo a divisor of the base.

* **ServerProofs**, the allocator: `AllocatorTypes`; `ScanPassesAllocated`
  ([]ScanInv), which needs the case of the subnet that ends at `AddrSpace`
  because `nextIP` wraps; `AllocatorIsPool`: every round of the scan is a
  stutter of AddressPool but the last, which is its `Alloc`, because by ScanInv
  what the scan has passed is taken; and from the types of the state and
  BytesProofs, `ScanIsOnBytes` and `KeysAreAddresses`: the slices of ipalloc.go
  behave as the numbers of the model. `LowestUsable` says what `alloc` returns:
  the least free address, or NoIP exactly if there is none.
* **ServerProofs**, the server: the inductive invariant is TypeOK /\
  LeasesDisjoint /\ PoolMatchesLeases. LeasesDisjoint alone is not inductive:
  `grab` and `alloc` consult only `allocated`, so a new address differs from the
  recorded ones only because the maps agree; and the maps stay equal after a
  release only because no one else had the released address. From it follow
  `TypeCorrect`, `LeasesAreDisjoint`, `PoolAgrees`, `AnswersCarryLeases`,
  `UnansweredWhenFull`, the action property `LeasesAreStable`, and the
  refinement `ServerIsLeaseTable`.
* **ClientProofs**: all safety properties of the `client` run, for any retry
  count, channel capacity, packets and number of clients. The properties speak
  of a call that has decided (`pc = "join"`); the inductive invariant carries
  what they need from the start of the exchange to there: `PacketInv` (whatever
  is in the channel, held or returned has arrived and has the right ID),
  `ControlInv` (the goroutine ends before the call, and an error comes at its
  end), `ContextInv` (until the call decides, its context is live unless a user
  made it, so no call sees its own cancellation), `AcceptedInv` (the goroutine
  is back at the head of retryFn's loop only without a response; a call that
  takes the first packet still has it in the channel), `CountInv` (retryFn's
  counter is the number of transmissions) and `DecidedInv`. The refinement
  `ClientIsExchange` maps the variables by name; calls, decisions, returns and
  arrivals are the steps of Exchange, all others stutter. Every step is one
  client's and leaves the others alone, which is proved first.
* **SystemProofs**: `AcksAreLeases` and `AddressesNotShared`, for any number of
  clients and addresses, under the hypothesis `DistinctIDs` that the transaction
  IDs differ (the run `system_alike` shows that it is needed). AckedIsLeased
  alone is not inductive, as the ACK that a client takes may have been in flight
  for long. The invariant says in `Tables` that the server's maps agree, in
  `Network` that every packet in flight is some client's, and that an ACK in
  flight carries what is recorded now, and in `Clients` that what a client was
  given was in flight. Nothing ends a lease in System, because the client has no
  call that sends a Decline or a Release: that is why an old ACK stays true.
* **PacketFormatProofs**, **PacketCodecProofs**: all safety properties of the
  `codec` run, for headers, options and values of any size and any bytes on the
  wire. The first has the operators: what is written of a header is read from
  the same place (`ReadsHeader`), a round of Marshal puts down what rounds of
  Unmarshal take up, and each getter undoes its type's `MarshalBinary`
  (`ReadBack`). The second has the inductive invariant. RoundTrip speaks of a
  call that has ended; to get there the invariant relates the bytes in every
  round of both loops to the packet they came from. `MarshalInv` says that the
  buffer is the header and a body that `Reads` as the options written so far,
  split into chunks of at most 255 bytes; `ParseInv` that the rest of the bytes
  reads as the rest of the options and that only an End in the sender's map
  makes it fail; `WireInv` that without an error of the Lexer the header came
  from its place; `OptionsInv` that no parsed code is Pad, End or empty;
  `AddedInv` that an option holds the bytes of the values added under its code.
  From it follow `TypeCorrect`, `PacketsComeBack`, `AcceptedAreComplete`,
  `WrittenNamesEnd`, `OptionsAreReal` and `AddedAreRead`.
* **HeadersProofs**: each getter returns what its setter put down and no setter
  disturbs another field; `CombineIsOnesComplement`: folding the carry once
  gives a word that differs from the sum by nothing or by 2^16 - 1, and is zero
  only if both terms are; `ChecksumIsSum`: `Checksum` is the ones' complement
  sum of any number of bytes, odd or even, so that partial sums may be added in
  any order; and so what `udp4pkt` builds verifies.
* **UDPConnProofs**: all safety properties of the `conn` run, for payloads,
  headers, buffers and queues of any length. The inductive invariant says of
  every packet in the queue that its bytes are what its sender meant (`IsEntry`:
  it verifies, `ReadFrom` finds its headers, and takes it for a datagram to the
  sender's address with the sender's payload, or for none), of the packet being
  built that its fields are those last set (`DraftInv`), and of a call that it
  has returned nothing while it runs (`ReaderInv`). From it follow
  `TypeCorrect`, `SentVerify`, `FieldsReadBack`, the action property
  `WholePacketsSafe`, and the refinement `ConnIsPort`: the port's inbox is the
  wanted datagrams of the queue, cut to the buffer, so skipping a packet is a
  stutter, and returning one takes the inbox's head.

Only model-checked: liveness (`AllocReturns`, `EveryCallReturns`, `Terminates`,
`ReadReturns`), as the prover knows neither fairness nor ENABLED.

## Findings

Each is a run that TLC refutes; `PROJECT.json` quotes the line it contradicts.

1. `client_noiface` (client.go:374): a client made with `New(nil, ...)`, as the
   tests make them, dereferences its nil interface when a DHCP packet with
   another transaction ID arrives.
2. `client_forever` (client.go:415): `retryFn` takes the deadline of the user's
   context for a timeout of the attempt and goes on, for ever with a negative
   retry.
3. `system_request` (client.go:171): `Request` ends with the first packet that
   has the transaction ID, which may be a duplicate of the offer.
4. `system_alike` (client.go:186): the transaction ID is the end of the hardware
   address, so two clients whose addresses end alike take each other's ACK.
5. `codec_empty` (options.go:91, 132): an option of zero length, which `Get`
   makes a point of telling from an absent one, is not written and not read.
6. `codec_longform` (dhcp4opts/types.go:68): `IP.MarshalBinary` takes the first four
   bytes, which are zeros in the 16-byte form of an IPv4 address. `writeIP`
   (packet.go:100) does the same to the addresses of the header, so RoundTrip is
   stated for 4-byte addresses.

Seen while modelling, and not kept as runs of their own:

* `WithRetry(r)` is said to configure retransmissions (client.go:91);
  `retryFn` (client.go:409) counts transmissions, so `WithRetry(0)` sends nothing.
* `Renew` (client.go:148) may return an ACK of an earlier exchange, which has the
  same transaction ID. AckedIsLeased holds all the same.
* Two nil addresses are `Equal`, so a Request without requested address from a
  client with no lease is acknowledged, with YIAddr 0.0.0.0 (server.go:181).
* With an empty End entry in the map, Marshal writes no End (options.go:157).
* MarshalBinary panics on a name that fills its field (packet.go:130), which
  UnmarshalBinary accepts: such a packet can be parsed and not written again.
* UnmarshalBinary never clears Broadcast (packet.go:167). ParsePacket is not
  concerned, as its Packet is new.
* Data under the codes Pad or End makes Marshal loop for ever (options.go:139),
  writing that byte. Terminates therefore excludes it.
* The allocator hands out network, broadcast and the server's own address if
  they are in the subnet; its test expects the network address first.
* In a full 0.0.0.0/0 `alloc` never returns. SubnetAssumption allows that subnet,
  for which the safety theorems hold; AllocReturns is checked for a smaller one.

* `ReadFrom` reads headers without `IsValid` (ipv4.go:80 asks for it), returns the
  destination of a packet as the address it came from, and ignores both length
  fields, so padding of the link stays at the end of a payload; Unmarshal
  accepts Pad there. `WriteTo` returns the length with headers.
* A UDP checksum that comes out as 0 is sent as 0, which means none, and not
  as 0xFFFF.
* `WriteTo` dereferences `boundAddr`, which `NewPacketUDPConn` never leaves nil and a
  caller of `NewBroadcastUDPConn` may.

## Not modelled

* `NewIPv4UDPConn` and `NewPacketUDPConn` (conn_linux.go:24-65): a sequence of
  system calls with no state of its own; the first closes its file descriptor in
  a deferred call, as `net.FilePacketConn` has made a copy.
* Fragments and link padding in UDPConn; `IsV4MulticastAddress`, which nothing calls.
* Several callers sharing one `Client`: the code has a TODO against it.
* The server command: it parses flags, calls `New` and `Serve` once and ends with
  them. Nothing is persisted, so there is no recovery to model.
* `String` methods and log output.
