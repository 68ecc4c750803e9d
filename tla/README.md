# A verification of ltRtspService

ltRtspService is a small RTSP server for Windows: libevent accepts TCP
connections, the server answers RTSP requests on them and streams one H.264
file, `\test.h264`, as RTP packets interleaved on the same connection.
Everything runs on libevent's one thread: no two callbacks ever overlap, and a
callback that does not return stops the whole server.

The modules here model that program, TLC checks them on small instances, and
TLAPS proves the central results for every value of the constants.
`src/` below is the root of the repository; file names without a path are in
`src/ltRtspService/`.

## 1. Inventory

| Part | State it keeps | Operations | Talks to |
|---|---|---|---|
| **Network** (`network.cpp`) | event base, listener, signal event, the two data callbacks | `NetPrepare`, `StartServer`, `Listen_Cb`, `Event_Cb`, `Signal_Cb` | creates and ends sessions; gives libevent the session's address as callback argument |
| **MediaSessionList** (`MediaSession.cpp`) | the map from session id to session | `SessionInsert`, `SessionGet`, `SessionDel`, `GenSessionID` | called by Network |
| **MediaSession** (`MediaSession.cpp`) | collected request text `rtspinc`, type of the last request `info.stype`, the stream `streamobj` | `Recv`/`DealRtsp` (read callback), `Send` (write callback) | RtspString for the reply, HardwareIO and MediaStream on SETUP, RtpOverTcp on PLAY and in `Send`, the bufferevent for output |
| **RtspString** (`RtspString.cpp`) | the last parsed request `deal_info` | `deal_requset` and what it calls | MediaCreateSdp on DESCRIBE |
| **HardwareIO** (`HardwareIO.cpp`) | one open `FILE*` for each file name, shared by all sessions | `MakeFileNode`, `GetBufferFormFile` | called with each stream's own `filepos` |
| **MediaStream, h264MediaStream** (`MediaStream.cpp`, `h264MediaStream.cpp`) | node queue `bufferlist`, `filepos`, `sqsnumber`, `DevCount`, frame counters, parsed SPS and slice | `DevNode`, `DevLargeNode`, `GetNode`, `GetNalType`, `ParseSqs`, `ParseSlice` | fed by MediaSession and RtpOverTcp |
| **RtpOverTcp** (`RtpOverTcp.cpp`) | none of its own | `TCPForH264` | takes nodes, reads blocks when there are none, writes RTP headers |
| **MediaCreateSdp** (`MediaCreateSdp.cpp`) | the SDP of each file | constructor, `GetSdp`, `H264CreateSdp` | h264MediaStream, Base64 |
| **Buffer, netbufferpoll** (`MediaBuffer.*`) | bytes and fill level | `FullBuffer`, `SetByte`, ... | everywhere; the pool is never used |
| **Base64, bit reader** (`BaseEncoder.h`, `bit/vlc_bits.h`) | - | `Base64Encode`, `bs_read`, `bs_read_ue`, ... | MediaCreateSdp, h264MediaStream |

Vendored and generated code (`src/smart_ptr`, `src/_Include`, `src/Lib`,
`src/ipch`) is left aside.

What is hard in this program, and what makes each part correct:

* **Session lifetime.** A session is reached two ways, through the raw pointer
  libevent holds and through its id in the map. Both must lead to the same live
  object for as long as the connection is open, and to none afterwards.
* **The write chain.** A stream is not driven by a timer. libevent calls `Send`
  when the output of the connection has been emptied; `Send` writes one packet,
  which makes libevent call it again. The chain must never break while a
  session plays, and must never double.
* **One output, one input.** Replies and packets share the output; requests, cut
  or joined by TCP, and RTCP packets share the input. Replies must keep the
  order of the requests, and packets their numbers.
* **The shared file.** Every stream reads through one `FILE*` with relative
  seeks from wherever the last reader left it.
* **The end of the file** is not recorded anywhere: the loop around
  `TCPForH264` goes round for ever, on the only thread.
* **Cutting blocks.** NAL units and start codes are cut by block ends; `DevCount`
  alone carries a NAL unit from one block to the next.
* **Packets** depend on what earlier nodes have left behind (SPS, slice, NAL
  type, frame counters).
* **Headers.** Which syntax element of an SPS or a slice comes next depends on the
  values before it; the parsers are told lengths that are not the unit's, and
  objects made with `new` keep what nobody has read into them uninitialised.
* **Text that stays.** `deal_info` lives as long as the session and the scanners
  return early, so a request may be answered with what an earlier one said.
* **The SDP** is made of the first 4096 bytes of the file, wherever they cut it.
* **The end of the program** is a timer of the one loop; whether it comes depends
  on every callback returning.

`PROJECT.json` lists these hazards line by line with the properties that would
catch them.

## 2. Modules

| Module | Models | Kind |
|---|---|---|
| `SessionService` | the service the listener and the list promise together | abstract specification |
| `MediaSessionList` | Network and MediaSessionList | implements `SessionService` |
| `MediaSessionListProofs` | | proofs |
| `HardwareIO` | the shared file | component |
| `HardwareIOProofs` | | proofs |
| `RtspSession` | MediaSession, request types of RtspString, the bufferevents, the clients; `File == INSTANCE HardwareIO` | composition of sessions and the file |
| `RtspSessionProofs` | | proofs: types, the write chain, the file, sequence numbers, the order of replies, what polite clients can bring about; uses `HardwareIOProofs` |
| `H264MediaStream` | `DevNode`, `DevLargeNode`, `GetNode`, `GetNalType` | component |
| `H264MediaStreamProofs` | | proofs |
| `RtpOverTcp` | `TCPForH264`; `H264 == INSTANCE H264MediaStream` | composition of cutting and packets |
| `RtpOverTcpProofs` | | proofs; uses `H264MediaStreamProofs` |
| `VlcBits` | the readers of `bit/vlc_bits.h` | operators |
| `H264Headers` | `ParseSqs`, `ParseSlice`; extends `VlcBits` | component |
| `H264Syntax` | the headers as H.264 defines them, not as the code reads them | reference definition |
| `H264HeadersProofs` | | proofs: `H264Headers` reads what `H264Syntax` defines |
| `MediaCreateSdp` | the constructor, `H264CreateSdp`, `GetSdp`, `Base64Encode`; `H264 == INSTANCE H264MediaStream` | composition of cutting and the SDP |
| `RtspString` | `rtsp_string`, `SetDescribe`; `Sdp == INSTANCE MediaCreateSdp` | composition of requests and the SDP |
| `RtspStringProofs` | | proofs: requests and replies, Base64, the SDP; uses `H264MediaStreamProofs` |
| `RtspServer` | the loop; `List == INSTANCE MediaSessionList`, `Rtsp == INSTANCE RtspSession` | composition of the list, the sessions and the file |
| `RtspServerProofs` | | proofs; uses `MediaSessionListProofs` and `RtspSessionProofs` |
| `MCMediaSessionList`, `MCRtspSession`, `MCH264MediaStream`, `MCRtpOverTcp`, `MCH264Headers`, `MCRtspString`, `MCRtspServer` | | instances for TLC |

Each module contains, in front of some of its definitions, a variant that begins
with the comment "A plausible slip". These are not used by the specification.
They are the bugs each property is tested with: put in place of the real
definition, each makes TLC report the property.

### MediaSessionList

One action per callback and per step of `_tmain`. `heap` is the set of allocated
sessions, `arg` the callback argument of each connection, `SessionList` the map
(NULL for a missing key), `sessionid` what each object's `info.sessionid` holds,
also after it was freed. `SessionInsert` leaves an existing key alone, as
`map::insert` does, and ignores that, as the code does. `SessionDel` includes
`SessionGet`: an unknown id enters a null pointer and uses it ("crashed").
`GetSessionID` of a freed object reads anything.

`StrictClock` says whether `QueryPerformanceCounter` can return one value twice.
The code relies on it silently: with it, all properties hold and the module
implements `SessionService`; without it, two connections may get one id, the
second session cannot be entered, and the end of either connection deletes the
first session. `ListConsistent` is the one property that holds even then: the run has
a strict counter, and `ListAlwaysConsistent` proves it for any.

### HardwareIO

`position` is the position of the `FILE*`, `filepos` each stream's own count,
`cut` a history of the offsets of the blocks the stream has really been given.
`Setup` is `MakeFileNode` with the first `GetBufferFormFile` (and the `DevNode`
that adds the block to `filepos`), `Refill` the read in `TCPForH264`, `Drop` the
end of the stream. `Seek` is the two `fseek` calls: `_curpos` is always 0, so
the relative seek asks for `-filepos` from the current position, and fails
(leaving the position alone) when that is before the start. This is why a
stream alone with the file gets the first block twice and then every block in
order, and why streams that share the file get blocks in an order that depends
on both. What sharing cannot spoil is `BlocksOfTheFile`, a property of `RtspServer`:
a stream's first block is the file's (`FirstBlockFirst`; it is sought from the start
of the file), and every block it gets begins at a block's place, counted from the
start: streams mix up each other's places, but only by whole blocks. With the file
alone this does not hold. A read that stops inside the last, incomplete block leaves
the `FILE*` between two places, and the other streams would go on from there; in the
server they never do, as the stream that met the end keeps the only thread for ever.
The failed seek keeping the position is the behaviour of the C runtime
the program is built with; the code depends on it. The offset reaches `fseek` as
a 32-bit `long`, so the model ends a stream before 2^31 bytes
(`WidthAssumption`).

### RtspSession

The core. For each connection: what the client has sent and the network still
carries (`wire`), what libevent has read (`input`), the collected text
(`rtspinc`), the last request type (`stype`), the stream (`stream`, `queue`,
`sqsnumber`), the output and whether its write event is pending (`output`,
`ev_write`), and what the client has learnt (`client`). The file is an instance
of `HardwareIO`.

* `Recv` takes one chunk from the input, drops it when it begins with an RTCP
  packet, cuts it at the first NUL otherwise (`Appended`), and answers one
  request when the text is complete (`DealRtsp`): `DealSetup` makes a stream and
  cuts the first block, `DealPlay` enters the loop around `TCPForH264`,
  `DealOther` is every other reply. The rest of the text is thrown away.
* `WriteReady` is libevent's write callback: one unit leaves the output, and
  when nothing is left `Send` runs.
* `TCPForH264` is one turn of the loop that `DealPlay` and `Send` share; `busy`
  names the connection whose callback is in it, and nothing else of the server
  moves meanwhile (`Idle`). The blocks are cut into any of the node sequences
  `Cuts`; what nodes are is `H264MediaStream`'s matter.
* `Connect` and `Disconnect` are what `Listen_Cb` and `Event_Cb` do to a session.
  libevent makes the write event pending when a bufferevent is enabled, so `Send`
  runs once before anything was written.
* Clients send requests in any order (`Polite = FALSE`), or only after the reply
  to the last and in the RTSP order; TCP may deliver a request in two pieces
  (`Splits`); RTCP packets are sent while packets arrive.

What a reply says beyond its success, and the content of packets, is not in this
module. `ZeroedHeap = TRUE` excludes that the uninitialised `info.stype` of a
new session happens to say PLAY; with FALSE, the first write callback uses a
null stream. A chunk that fills the 1480 bytes of `pstring` exactly (which
leaves no terminating NUL) is not modelled.

### H264MediaStream and RtpOverTcp

`H264MediaStream` is the two functions step by step: one action for each turn of
`DevNode`'s loop (`Advance`, `FirstStartCode`, `RawNode`, `NextStartCode`,
`Leftover`) and of `DevLargeNode`'s (`Fragment`, `LastFragment`, `Single`). Bytes
are numbers; a node is its bytes 0 and 1, the byte it has its NAL type from, and
the range of the block that is its payload. `Limit` stands for
`NETMTU - RTP_HEADSIZE - 2`. The blocks are arbitrary: with a shared `FILE*` any
block may follow any other.

A mark is one byte of the node, so in a NAL unit of 256 nodes and more (`MarkMod`) one
in the middle is marked as the last and the next one as the first (section 5).
`LongNals = FALSE` keeps units shorter than that: while a unit is carried, a
block is only cut when the nodes counted so far and the most the block can add
(`MostNodes`) stay below `MarkMod`. With the code's `Limit` a block of 10240 bytes adds 8
nodes at most, so a unit may go on over 31 blocks, some 310 KB; a unit above that is
what `LongNals = TRUE` allows, and the theorems that assume FALSE say nothing of it.

`RtpOverTcp` adds `TCPForH264`: `SkipNode` (parameter sets and SEI), `SliceNode`
(SINGLE nodes and the first of a run), `FragmentNode`, `OtherNode` (anything
else, whose header is written over the node's bytes and past its end), with the
sequence number and the timestamp. `ParseSqs` is the flag `StreamSps`;
`ParseSlice` chooses a slice type and an order count. `RtpOverTcp.cpp` names the
frame counters as members of `h264MediaStream`, `MediaStream.h` keeps them in
`MediaInfo`; the model has them once. Rates and waiting (`fps`, `tick`) are left
out: `fps` is an integer quotient that is 0 for any usual stream.

### VlcBits and H264Headers

`VlcBits` is the bit reader: a reader is the bits and a position that stops at
the end of the bytes, a read returns its value with the reader behind it.
`bs_read` works byte by byte in the code and is one sum here. What it reads past
the end counts as zeros, and `bs_read_ue` gives up at the end, as in the code. Its
result is an `int` of 32 bits: behind 31 or 32 zeros it wraps and may be negative
(`Golomb`). A shift by 32 counts as a shift by 0, as on the processor the program is
built for.

`H264Headers` is `ParseSqs` and `ParseSlice`. A parser is its unit's bits and
`todo`, the syntax elements it still has to read. `ReadElement` reads one and
puts in front of the list what its value calls for (`Follow`), stores what the
code stores (`Store`), or gives up where the code returns early (`GivesUp`).
`Unescape` is the copy without emulation prevention bytes, with the different
bounds of the two functions; `Garbage` is what lies behind the unit in memory,
which the lengths they read with include. `StreamSps` and `CurSlice` begin with
every field `Unset`, and a use of such a field is a `fault`. The bounds in the code are
upper bounds of ints, so a negative value passes them: `Store` keeps it, a negative
count has no entries (`Cpb`, `Follow`), a negative width reads nothing. Only
`num_reorder_frames` is unsigned, and gives up. `reparse` tells the
two callers apart: `H264CreateSdp` parses every SPS and no slice, `TCPForH264`
the first SPS and every slice, and divides by `time_scale` at once.

Each unit of a stream carries what its header *says*. What that means for its
bytes is in `H264Syntax`, which has the syntax tables of the standard as sequences
of codes (`SpsData`, `SliceHeader`), how a code stands in bits (`Stands`), and what
emulation prevention is (`Prevented`). It is written from the standard and not from
the code, so the properties compare the parsers with an independent definition.
`Conforms(stream)` says that each SPS and each slice of a stream is of this form and
that its slices belong to its first SPS. The instances of `MCH264Headers` are made
by an encoder; an `ASSUME` there lets TLC check that what it writes conforms.

The tables leave out what the code does not read: scaling matrices, and the
profiles 44, 83 and 86, which have the fields of the high profiles and are not
recognised. Sizes are those a level can have, 1055 macroblocks at most
(`mb_width`, `mb_height`). Slices are of the types 1, 2 and 5 (the partitions 3 and 4
have no header of their own), without separate colour planes, and their head lies
within the 64 bytes that `ParseSlice` looks at.

### MediaCreateSdp and RtspString

`MediaCreateSdp` runs once, at the start: `ReadWindow` and `CutWindow` hand the
first `WindowSize` bytes to `H264MediaStream` as one block, `TakeNode` is one turn
of `H264CreateSdp`'s loop, `Insert` the entry in the list, `GetSdp` the look-up.
An SDP is the record of its template's placeholders and what stands in their
place. `Base64Encode` gives the characters by number; a reference decoder
(`Base64Decode`) and a reference cutting (`NalUnits`) check it and the nodes.

`RtspString` is one session's `rtsp_string`. A text is a sequence of tokens, of
which the code looks for some; each scanner returns the place it stopped at, or
0, and then `deal_string` leaves the fields behind it as they were. That is why
`deal_info` is state. `deal_describe`, `deal_others` and `deal_error` write
the reply; `SetDescribe` completes the SDP and takes its length afterwards.

### RtspServer

The list and the sessions share the loop. A listener callback is `Listen_Cb` of
the list and `Connect` of the session in one step, an event callback `Event_Cb`
and `Disconnect`; every other callback is a step of the session alone, while
the list's loop is dispatching. `arg` of the list is what a session of
`RtspSession` is. `left` is what the memory of deleted sessions still says: a
new session at such an address may start with `info.stype` PLAY, and this
composition allows that, where `RtspSession` alone can only choose it freely or
not at all. `Stop` is the end of the loop that SIGINT has armed.

## 3. Runs

| Run | Shows |
|---|---|
| `session_list` | three connections, three heap addresses, five counter values, none of them returned twice: the invariants and the refinement of `SessionService` |
| `file_sole` | a stream alone with a file of 102 blocks and a half: order, completeness, end |
| `rtsp_polite` | one polite client, requests cut in two: safety and liveness of the whole connection |
| `rtsp_any` | one client that pipelines, repeats and misorders requests and sends RTCP: the write chain, the output, and no packet before PLAY is granted |
| `rtsp_rtcp` | violation: a request behind an RTCP packet is lost (README.md:13) |
| `h264_nodes` | three blocks, each any of the windows of a stream with all kinds of unit |
| `rtp_packets` | the packets made from such blocks, where no block's end cuts a parameter set or SEI |
| `rtp_key_frame` | violation: a key frame has two timestamps (RtpOverTcp.cpp:126) |
| `rtp_parameter_sets` | violation: cut SEI and parameter sets are sent (h264MediaStream.cpp:352) |
| `headers` | SPS and slice headers in 14 shapes, alone and after one another, and 21 streams with codes of 31 and 32 zeros: the parsers find what the encoder wrote, and no width is above its bound |
| `rtsp_text` | files cut everywhere, and any sequence of requests: the SDP is the file's, replies are their request's |
| `server` | two sockets over two addresses and one file: sessions, the blocks two streams read in turn, and the end of the program together |

**Bounds.** `session_list`: a wrong deletion needs two connections and an object
that is reused; three of each leave room for a bystander. `file_sole`: the sole
stream has one behaviour per file size; 100 blocks are more than the four kinds
of step (first, second, later, past the end) need. `rtsp_polite`: six requests
are a whole session with a repetition of each kind of request after PLAY; two
cuts let every call of the loop meet a node to send, one to skip and an empty
queue; four blocks end the file within the run. `rtsp_any`: four requests, two
units a chunk, two RTCP packets, which are enough for every mixture of two
requests and one RTCP packet in a chunk with something before and after it.
Sequence numbers are counted modulo 4 or 2, so they wrap. `h264_nodes` and
`rtp_packets`: windows of 18 bytes at every offset of a stream with every kind of
NAL unit, both start codes, and one unit longer than a window, three in a row:
begin, go on, end. `Limit = 5` gives runs of up to four nodes a block.
`headers`: every optional part is there in one shape and absent in another, every
loop runs none, one and several times, and codes lie on the boundaries the code
tests (ids 31 and 32, widths 12 and 13, aspect ratio 255, 16 reordered frames),
so that 32-bit fields of zeros need emulation prevention bytes; behind the unit
all bits are 0 or all are 1. In each of seven fields that a bound, a loop or a product
depends on, a code stands whose int is -2, -1 or the least one, with slices behind
it. A stream holds two SPS at most, as a later one meets
only what the last one has left. `rtsp_text`: `WindowSize = 34` ends within and
between two SPS, a PPS and slices of a longer file, which is also cut everywhere
before; sets have every length mod 3. Requests have or lack a path, a trailing
slash, a space behind "CSeq:", the file's name; as `deal_info` alone passes from
one to the next, all pairs of them occur. `server`: the two connections stream
side by side, or the second gets the memory of the first, which ended while it
played; three requests of a polite client are DESCRIBE, SETUP and PLAY. The file has
two blocks and a half (`Block = 2`, so that a block can begin in the wrong place):
streams overtake each other and meet the end inside a block.

Deadlock is not checked: a closed server, a crashed process, and a client with
nothing more to ask really stop.

**Fairness** (`FairSpec` of `RtspSession`). libevent's loop serves every ready
event in each round, so `Recv`, `WriteReady` and `Disconnect` are strongly fair:
they are ready again whenever no callback is at work, and one that is ready again
and again is served. `TCPForH264` is weakly fair, being sequential code. Clients
read (which `WriteReady` includes) and finish requests they have begun
(`SendTail`); they need not send anything else or hang up. Nothing makes the end
of the file pass: all liveness properties except it by name (`AtTheEnd`).
`FairSpec` of `RtspServer` asks for less: a callback that has begun goes on
(weakly fair), and `Stop` is strongly fair, since libevent looks at its timers in
every round of its loop, whatever else is ready. Clients owe it nothing.

## 4. Proofs

The proof modules hold what TLAPS checks for every value of the constants. Each
invariant was an invariant of a TLC run first, so far as a run checks it.

| Theorem | For all | Assumes |
|---|---|---|
| `MediaSessionListProofs!Safety` | sockets, addresses, counter bounds | `StrictClock` |
| `MediaSessionListProofs!ListAlwaysConsistent` | the same | nothing |
| `MediaSessionListProofs!Refinement` | the same | `StrictClock` |
| `HardwareIOProofs!SharedFileSafety` | streams, block and file sizes | nothing |
| `HardwareIOProofs!SoleStreamReadsAll`, `SoleEndIsFinal` | block and file sizes | at most one stream |
| `H264MediaStreamProofs!LoopsStayInBlock` | blocks, `Limit`, lengths of NAL units | blocks have 4 bytes at least |
| `H264MediaStreamProofs!RunsAreWhole` | blocks, `Limit` | `LongNals = FALSE` |
| `RtspSessionProofs!TypeCorrectness`, `WriteChainHolds`, `UsesHardwareIO`, `StreamsStartAtFirstBlock`, `BlocksAreWhole` | clients, requests, chunk sizes, ways to cut, files | nothing |
| `RtspSessionProofs!SoleClientReadsAll` | the same | one connection |
| `RtspSessionProofs!NumbersFollow` | the same | nothing |
| `RtspSessionProofs!RepliesFollow`, `PacketsFollowPlay` | the same | nothing |
| `RtspSessionProofs!PoliteClientsAreServed` | the same | `Polite`, `Block <= FileSize` |
| `RtpOverTcpProofs!UsesH264MediaStream`, `TypeCorrectness` | blocks, `Limit`, slices | nothing |
| `RtpOverTcpProofs!PacketsFollowNodes` | the same | `LongNals = FALSE`, no block end cuts a parameter set or SEI |
| `RtpOverTcpProofs!FilesWithParametersPlay` | blocks, `Limit`, slices | `BeginsWithParameters` of the first blocks |
| `H264HeadersProofs!Types` | streams, valid or not, and the bytes behind them | a slice only behind an SPS |
| `H264HeadersProofs!SpsIsRecovered`, `SliceIsRecovered`, `GarbageIsNotRead`, `TimeScaleIsSet` | the same | `Conforms(units)` in the first state |
| `RtspStringProofs!TypeCorrect` | texts, files, `WindowSize`, `Limit` | texts are sequences of strings |
| `RtspStringProofs!CseqComesBack`, `DescribeAnswersItsPath` | the same | recognised requests are `Written` |
| `RtspStringProofs!SdpUsesH264MediaStream` | the same | nothing |
| `RtspStringProofs!SdpCarriesTheFile` | the same | files are `AnnexB` |
| `RtspServerProofs!Composition` | connections, addresses, requests, files | nothing |
| `RtspServerProofs!StreamsGetBlocksOfTheFile` | the same | nothing |
| `RtspServerProofs!StreamsOwnSessions` | the same | `StrictClock` |
| `RtspServerProofs!PoliteServerStaysUp` | the same | `StrictClock`, `Polite`, `Block <= FileSize` |

"Nothing" means: nothing but the named `ASSUME`s of the module, which type the
constants; `WidthAssumption` also ends a stream before its 2^31st byte, where
`fseek`'s 32-bit argument would wrap.

**MediaSessionListProofs.** The invariants of the run are together inductive but
for one fact: that a new id is a missing key. `IdsBehindCounter` (no id in use is
ahead of the counter) gives it, and needs `StrictClock` to last. That the list
never leads to a deleted session (`ListConsistent`) needs neither: `map::insert`
refuses the second session of an id, and `SessionDel` erases the entry it found.
The refinement maps each connection to the id its session is found under; a
listener or event callback is one step of the service, all else stutters.

**HardwareIOProofs.** The first read of a stream asks for offset 0, the only offset
that is sought from the start of the file (HardwareIO.cpp:82), so it gets the
first block whatever the others did.
For a sole stream the strengthening `StreamAt` ties `position` and `filepos` to the
number of blocks cut: after the second block the position is one block behind
`filepos`, so the relative seek always fails and the file is read on.
`Aligned`, which holds for any number of streams, says that streams cut whole
blocks: the shared position is a multiple of a block away from the file's start or
from its end. `Grid` is what is left of the second case when the position is at a
block's place: as long as no read has met the end, every seek stays at such places and
so does every block cut (`SeekWhole`, `CutWhole`, `GridNext`). A
read that failed leaves `filepos` where the next one fails as well
(`PastEnd`, `FailsAgain`), and a stream that goes round at the end, with the thread to
itself, never gets another block. `RtspSessionProofs` needs that for sequence numbers.

**H264MediaStreamProofs.** `Shape` says what the loops keep between their turns:
how `pos`, `sta`, `from` and `end` lie in the block in each phase, and when
`DevCount` and `IsFU_A` agree. It is inductive, and `BlockUsedUp` is one of its
parts. `Grammar` adds the runs: each node fits the one before it (`Chain`), the
newest run is open exactly when `DevCount` is not 0, and the newest payload ends
where the next begins (`Where`). Its third part, `MarksSuffice`, is why
`LongNals = FALSE` is assumed: it bounds the nodes a unit can still get in the block
that is being cut, one for each `Limit` bytes and one more, before the marks, which are
bytes, wrap. Without it the theorem is false: the 256th node of a unit has mark 0.

**RtspSessionProofs.** `Typed` is `TypeOK` with two facts that types hang on: a
session has a stream exactly when the file has one for it, and a callback in
`TCPForH264` has a stream and is `Send` or answers a PLAY (`Working`). `Chain` is the
write chain: besides `SendChainAlive` itself, the output is empty while `Send` is at
work, and no output holds two packets. Both are needed for each other: a packet
is only added to an output that was just emptied, which is why there is never a
second, and its presence is why libevent calls `Send` again. `UsesHardwareIO` then
lets the theorems of `HardwareIOProofs` be used for the server
(`SharedFile == INSTANCE HardwareIOProofs WITH Streams <- Conns`).
For `NumbersFollow` the invariant `Numbers` relates three places a number is in: the
last one in the output, or with the client when the output has none, and
`sqsnumber` follow each other, unless the reply to a PLAY is still in the output.
`ReadNothing` takes numbers without packets and would break it, but a stream that
has met the end holds the thread for ever (`Stuck`, from `Aligned`): nobody gets a
packet afterwards. For the same reason blocks stay whole (`BlocksAreWhole`): the step
in which a read meets the end is the last that moves the file but for that stream's own
turns, which cut nothing (`EndHoldsFile`, `FileGrid`, `NextGrid`).

`PacketsFollowPlay` adds `Started`: a stream that plays has its good reply to PLAY with
the client or in the output; a packet at the front of the output means the client has
had it; and when the stream there was replaced since, the reply to that SETUP is behind
the packet. It holds because `Send` only runs on an empty output, so that at most one
packet is in it, at its front (`Chain`).

`InTurn` follows a request from the wire to the reply. The text,
the input and the wire of a connection are one stream of units sorted by request
(`Queued`), whatever `Recv` has thrown away of it; each is younger than everything that
was answered, is in the output, or is the PLAY at work; and the output is sorted.
`Recv` only moves and drops units, which keeps a stream sorted (`Received`), and
`DealRtsp` answers a unit of the text and drops the rest of it.

`Backed` says what makes politeness effective: a PLAY on the way
has a stream, a SETUP on the way a file, and so has a reply that will let the client
send one. Requests only come from the units that were sent (`RecvQueued`), and good
replies only from requests. With a whole block in the file `SETUP` then always
succeeds and `assert(st)` always holds; what is left are the two known failures.

**RtspServerProofs.** `Composition` shows that each step of the server is a step or
a stutter of `MediaSessionList` and of `RtspSession`: `Connect` and `Disconnect` are
one of each, `conn` being what `socket` says. So the theorems of
`MediaSessionListProofs` hold for the server (`Sessions == INSTANCE
MediaSessionListProofs WITH server <- loop, conn <- socket`), among them
`SessionFound`: an open connection's session is allocated and its id leads to it.
`Attached` (inductive: a stream, and a callback at work, belong to an open
connection) carries that over to streams, which is `StreamsOwnSessions`. The theorems
of `RtspSessionProofs` hold for the server likewise (`Streams == INSTANCE
RtspSessionProofs`, `SameRtsp`), which gives `StreamsGetBlocksOfTheFile`.
`Remembered` adds what only the composition can say: a session without a stream whose
type is PLAY has it from the memory of a deleted one. It lasts because nobody else's
end changes what its address said (`NoDanglingSession`), and because
polite clients never get to PLAY without a stream.

**RtpOverTcpProofs.** Every step of `RtpOverTcp` is one of `H264MediaStream` or a
stutter, so the node grammar holds for the nodes taken. `Going` ties the packet made
last to the node taken last: its kind is the node's mark, its type is `CurNalType`, its
slice `CurSlice`; while a run goes on, `frame_count` equals `pframe_count` once a key
frame's first packet is out. The assumption on parameter sets and SEI is exactly what
`rtp_parameter_sets` shows to fail otherwise: the first node of a cut one is kept back
and the others are sent as part of a run nobody has begun.

For `NoNullPointer`, `ParametersFirst` follows the first block of a file that holds an
SPS and, with nothing but kept-back units before it, the start of a slice
(`BeginsWithParameters`). Until the SPS has been taken it is either in front of the
search, or the unit the search is in, or a node in the queue with no slice before it;
from then on `StreamSps` is set, and a slice has been parsed before any packet
needs one. Nothing is asked of the blocks that follow, nor of where the first one
ends, as long as the slice has begun.

**H264HeadersProofs.** `Types` needs to know that each reader stays inside its data and
returns numbers, and that `Follow` only names known elements; nothing is asked of
the bytes. For the rest the problem is that code and standard are shaped
differently: the standard has one table, nested, and the code decides after every
value what to read next. Both are seen as paths between places in the bits. An edge
of `Marks` is a code that stands there; an edge of `Branches` is an element of the
code together with the whole table that hangs on its value (`Under`). Then

* one lemma per table turns a path over the table's codes into a path over the
  elements that `Follow` gives (`SpsFollows`, `SliceFollows`, `SpsHeadChain`,
  `SliceHeadChain`); the hardest is the VUI, where the code asks for the flag behind
  the HRD tables in three places and the standard in one (`VuiChain`);
* `ReadIs` and `UnescapeReaches` are about numbers: bits read one by one are the
  number the encoder wrote, and an unescaped prefix of a unit is a prefix of what
  was escaped, whatever follows;
* the invariant `HeaderInv` says that `todo` is a path over `Branches` from the
  reader's place to a place that lies in the unit and in the data (`SpsWaits`,
  `SliceWaits`), and that each field is what the header says or still to come
  (`Comes`). `ReadElement` takes the first edge of the path and puts the path under
  it in front; when `todo` is empty, nothing is to come any more.

So no value is ever misplaced, `ParseSqs` never gives up, and the reader never passes
the unit's end. That a slice is read with the right widths is `SpsIsKept`, from
`SpsRecovered` itself. A unit that does not conform is only covered by `Types`, whose
widths have an upper bound but no lower one: among the instances these are the SPS with
the id 32 and the long codes, which stay with TLC. That the codes of conforming units
stay clear of the wrap of an `int` is part of the proof (`UeTyped`, `ReadIs`).

**RtspStringProofs.** Three parts. The *scanners*: on a request of the form clients
write (`Written`, which fixes only the places the scanners look for: the host has no
"/", the path no space, and there is one "CSeq:"), `RequestType`, `get_addr`,
`get_filepath` and `get_cseq` each find the place they should (`TypeWritten`,
`AddrWritten`, `CseqRead`), so `deal_string` replaces everything an earlier request left
(`PathUnderstood`, `SpacedUnderstood`). *Base64*: `DecodesBack`, for byte sequences of
any length, from the four characters of each group and the count of the "=" at the
end (`Encoded`, `Unpadded`). The *SDP*: every step of the constructor is one of
`H264MediaStream`, so its `Shape` holds for the window. `Searched` says where `DevNode`
is: behind a start code, with no other between there and `sta`. A parameter set it
passes ends exactly there and becomes the next node (`RawNodeSets`); where none is
made, none was passed (`NoSetMade`); and when the search ends four bytes before the
window does, whole sets have all been passed (`AllPassed`), so that no leftover is one.
`TakenSets` keeps, while nodes are taken, that the text is of the set taken last and all
later ones are still queued; when the queue is empty, that is the newest (`MadeSets`).

`AnnexB` asks of a file that a unit does not begin with a zero byte and that three
zeros only stand in front of a start code's 1; the standard guarantees both but
allows further zeros between units (`trailing_zero_8bits`), which are excluded. With
them the code takes the additional zeros for bytes of the unit in front.

**Only model-checked.** The liveness properties `PlaysToTheEnd`, `RequestsAnswered` and
`InterruptStops` stay with TLC, as fairness and ENABLED are beyond the prover. Every
invariant and action property of the passing runs is stated by a theorem above; what a
theorem assumes and a run does not is covered by that run's instances alone.
RECURSIVE operators are beyond the prover as well; the modules here have none.

## 5. Where the code and its documentation disagree

The violation runs show three. Seen while modelling, without a run of their own:

* Session ids may repeat (MediaSession.cpp:213; README.md:11 says they do not):
  `map::insert` refuses the second session of an id and the result is ignored. With
  `StrictClock = FALSE` the list module shows it; `ListConsistent` holds all the same.
* The mark of a fragment is 1 for the first of a run, 0 for the last, and 2 or more in
  between (h264MediaStream.cpp:360). `DevCount` is written into one byte of it
  (h264MediaStream.cpp:387), so the 256th fragment of a unit has the mark of a last one
  and the 257th that of a first. Only a unit above some 300 KB has so many.
* `filepos` is not the offset of the transfer (MediaStream.h:31): `_curpos` is never
  updated (HardwareIO.cpp:78), so the second read gives the first block again, and
  `filepos` is one block ahead of the file from then on.
* A request without a path in its URL and without a space behind "CSeq:" is
  answered with the CSeq of an earlier one, the scanners having stopped before it
  (RtspString.cpp:53); `CseqEchoed` excepts it.
* A failure of `H264CreateSdp` is ignored: the template is entered and sent with its
  placeholders (MediaCreateSdp.cpp:139).
* `sprop-parameter-sets` has the start code in its Base64 text; of a set that the
  window's end cuts into fragments, 18 bytes of header come first.
* `ParseSqs` returns early for an id of 32 and more; no caller asks for its result,
  so the slice parser goes on with unset widths (h264MediaStream.cpp:82).
* A code with 31 or 32 zeros gives a negative int (vlc_bits.h:204), which passes the
  bounds on the id and the widths (h264MediaStream.cpp:82, 102, 110): the SPS is taken,
  and slices are read with widths below the standard's.
* `time_scale` is left uninitialised by an SPS without timing information, and may
  be 0; the code divides by it (RtpOverTcp.cpp:53).
* A second SPS with other parameters is ignored when streaming (RtpOverTcp.cpp:44).
* A slice header that a block's end cuts is read on from the memory behind it.
* `deal_info.session`, printed in replies, is never set; `streamid` and `clientport`
  are parsed and never used.
* `GetInstance` of `MediaCreateSdp` keeps its first path; later ones are ignored.

* PLAY before SETUP fails `assert(st)` (RtpOverTcp.cpp:9); a new session whose
  memory says PLAY uses a null stream in its first write callback
  (MediaSession.h:36, MediaSession.cpp:153).
* The packet PLAY makes is dropped (MediaSession.cpp:126) but has taken a
  sequence number, so `sqsnumber` is not the number of frames sent
  (MediaStream.h:34), and the first packet has number 1 where the reply says
  `seq=0` (RtspString.cpp:320).
* TEARDOWN is not recognised (RtspString.cpp:154) and would do nothing
  (RtspString.cpp:331); the stream goes when the connection does (README.md:24).
  PAUSE cannot be recognised (RtspString.cpp:168).
* SETUP for UDP writes 405 and then 200 over it (RtspString.cpp:287-296).
* Any request after PLAY stops the stream while the play flag stays set
  (MediaSession.cpp:153, README.md:17).
* `Public` lacks OPTIONS (RtspString.cpp:210, README.md:56).
* Every fragment but the last loses the byte at its start, not only the NAL
  header (h264MediaStream.cpp:382), and a carried unit its last byte
  (h264MediaStream.cpp:481); byte 2 of the nodes of a carried unit is a byte of
  data, not the NAL header (h264MediaStream.cpp:361).

## 6. Not modelled, and what is left

* `netbufferpoll`, `Clear`, `operator=`, the writers of the bit reader, the Base64
  decoder (in comments): never called.
* Times: `tick`, `fps`, `Sleep`. What divides by `time_scale` is in `H264Headers`.
* A chunk that fills `pstring` exactly, and offsets above 2^31: see `RtspSession`
  and `HardwareIO`.
* The content of `SETUP` and `PLAY` replies, beyond status and CSeq.
* Vendored code: Boost's smart pointers and libevent's headers are what the
  modules rely on (a `shared_ptr` frees its object with the last owner; callbacks
  do not overlap), not what they model. It is nearly all of the repository's
  lines, so a share of the lines of the whole repository says little here.
