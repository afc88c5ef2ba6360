# TLA+ verification of libsrtp

libsrtp protects RTP and RTCP packets (RFC 3711), with AES-GCM (RFC 7714),
header extension encryption (RFC 6904), cryptex (RFC 9335) and, in this
version, roll-over counter carrying (RCC, RFC 4771). This directory holds TLA+
models of the library, TLC configurations that check them on small instances,
and TLAPS proofs of safety properties for every value of the constants. File
names below are relative to `src/`.

## The system and its parts

| part | code | here |
|---|---|---|
| extended replay database: highest packet index, window of recorded indices, guess of the rollover counter (ROC) | `crypto/replay/rdbx.c` | `Rdbx`, `RdbxProofs` |
| SRTCP replay database and counter | `crypto/replay/rdb.c` | `Rdb` |
| usage limit of a session key | `crypto/kernel/key.c` | `KeyLimit` |
| RTP packet functions on one stream, RCC modes, `srtp_stream_set_roc`, replacement by an update | `srtp/srtp.c` | `SrtpStream`, `MCSrtpStream`, `SrtpStreamProofs` |
| RTCP packet functions on one stream | `srtp/srtp.c` | `SrtcpStream`, `MCSrtcpStream`, `SrtcpStreamProofs` |
| two endpoints and the network between them | `srtp/srtp.c`; the network is external | `RtpPath`, `MCRtpPath`, `RtpPathProofs` |
| session: template, stream list, add, remove, update, cloning, memory | `srtp/srtp.c` | `Session`, `SessionAbs`, `MCSession`, `SessionProofs`, `SessionTableProofs` |
| policy: setters, profiles, validation | `srtp/srtp_policy.c` | `Policy`, `StreamKeysProofs` |
| key derivation | `srtp/srtp.c` | `StreamKeys`, `MCStreamKeys`, `StreamKeysProofs` |
| octets of a packet: trailer, MKI, tag, header extensions, cryptex | `srtp/srtp.c` | `PacketTransform`, `MCPacketTransform` |
| crypto kernel: init, shutdown, registries, self-tests | `crypto/kernel/`, `crypto/cipher/cipher.c`, `crypto/hash/auth.c` | `CryptoKernel`, `MCCryptoKernel`, `CryptoKernelProofs` |
| AES-GCM: OpenSSL, NSS, Mbed TLS, wolfSSL | `crypto/cipher/aes_gcm_*.c` | `BackEnd`, `CipherGcm` |
| AES counter mode: built in, OpenSSL, NSS, Mbed TLS, wolfSSL | `crypto/cipher/aes_icm*.c` | `BackEnd`, `CipherIcm` |
| HMAC-SHA1: built in, OpenSSL, NSS, Mbed TLS, wolfSSL | `crypto/hash/` | `BackEnd`, `AuthHmac` |
| the life of a cipher or authentication context | `srtp/srtp.c` and the back ends | `PacketCrypto`, `MCPacketCrypto` |
| AES rounds and tables | `crypto/cipher/aes.c` | not modelled: a fixed function |

An application initialises the library, which loads and tests its ciphers into
the *crypto kernel*, fills in a *policy* and creates a *session* from it. The
session owns a list of *streams*, one per SSRC, and at most one *template*: a
packet with an unlisted SSRC is served by a clone of the template that shares
its session keys. Each stream has an extended replay database for RTP, a
smaller one for RTCP, a direction that the first packet decides, and per
session key a usage limit and the contexts that encrypt and authenticate. The
sender and the receiver never exchange the ROC (unless RCC carries it): each
derives it from the sequence numbers it sees. That is why many of the
properties are about the packet index.

The modules divide the library by the state it keeps. `SrtpStream` and
`SrtcpStream` decide which index a packet has and whether it is accepted, and
take for granted what a tag is; `PacketTransform` says which octets are
encrypted and authenticated, and takes for granted that a cipher adds the
keystream of its IV; `PacketCrypto` shows that the contexts of every back end
do; `StreamKeys` shows that they were given the right keys, and `CryptoKernel`
that they are of types that passed their tests.

## The models and the code

**`Rdbx`, `Rdb`, `KeyLimit`** are pure: one operator per C function, a
database or a limit as a record. A bitmask is the set of the positions that
are 1. Widths are constants: `SeqMedian` stands for 2^15, `SeqMax` for 2^16,
`RocMax` for 2^32, `CounterMax` for the 2^64 values of the key counter,
`RtcpMax` for 2^31 - 1. Overflow is kept: the guess of the ROC wraps at
`RocMax`, the key counter below zero, the advance of the index is reduced to a
sequence number's width as the cast in `srtp_rdbx_add_index` does.

**`SrtpStream`** has the fields of `srtp_stream_ctx_t` that the RTP functions
change: `rdbx`, `pending_roc`, `direction`, and `limit` per key. `sent` and
`received` are history variables: the indices recorded under the current keys.
`last` is the last call, what it returned, the event it reported, the index it
recorded and the index that went into the cipher. Every exit of `srtp_protect`
and `srtp_unprotect` is an action, in the order of the code: collision, no
session key, expired, malformed, refused by the replay check, failed after the
index is recorded, done. The AEAD functions differ in when they charge the key
(`UnprotectAuthFail`) and are the case `Aead`. A tag verifies when the packet
is genuine and the receiver's index has the ROC the sender used. In RCC modes 1
and 2 the carried ROC replaces the estimate, in mode 3 the same in the IV; in
mode 1 the packets between are not authenticated. A change of the direction by
an RTCP packet is `RtcpCall`. **`SrtcpStream`** does the same for RTCP, where
the index is in the packet.

**`RtpPath`** composes two instances of `SrtpStream` with a network: a set of
packets, each of which may be delivered never, once or repeatedly, in any
order, and packets that no key holder made. What the first four octets of the
tag hold is `CarriedRocs`, including the case in which nobody wrote them.

**`Session`** has the template, the list with its capacity, and the heap: the
set of allocated streams, the set of allocated key materials, and which stream
uses which. `fault` records a use of freed memory, a second free or a null
list. Each step of the code that can fail has a failing action, and `Failures`
selects which of them can occur: the list, a stream, the growth of the list, a
clone, the initialisation of a new template. The index of a stream is a small
counter here; what it means is in `SrtpStream`. Loops over the list are single
steps. **`SessionAbs`** is what a session promises: a table from SSRCs to a
direction and an index, the direction of the template, and what a call may do to
them, given the SSRC it names and the status it returns (`result`, to which
`last` is mapped). A call changes no stream but its own. A stream goes by its
removal (`Leave`), by an update of it that returns a failed allocation (`Leave`
again, the code removes the old stream first), or by an update of the template
that does (`Lose`, any streams); any other call that fails leaves the table as it
was (`Refuse`), except that `srtp_protect` may fail with the stream already taken
in use. `Session` implements it (`Implements`) under a refinement mapping that
looks every SSRC up in the list.

**`Policy`** has every setter as an operator from a policy to a status and a
policy, the crypto policies the profiles select, and `srtp_policy_validate`.
**`StreamKeys`** is an application that calls the setters in any order and adds
a stream, and `srtp_stream_init_keys` call by call: the work left is the
sequence `todo`, and any call in it may fail. An octet of a key is modelled by
where it comes from, so that the buffer the keys are derived in one after the
other shows what a session key really consists of: an octet of the master key,
of one label's output, a zero, or what an earlier derivation left there. The
built-in and the wolfSSL derivation are separate actions.

**`PacketTransform`** has the packets as sequences of octets, in the sender's
and in the receiver's buffers. An octet is what was written and the set of
keystream octets added to it. The four packet functions and their AEAD variants
are compositions of operators named after the C functions they call, each of
which takes a call record (buffers, length, status, accesses) to the next, and
does nothing after an error. Buffers may be the same (in place) or not, their
size what `srtp_get_protect_trailer_length` announces. On the way a packet may
be altered or shortened; octets that are then read as a field that is not there
are any of `Noises`.

**`CryptoKernel`** has the three registries and one public call at a time, whose
remaining steps are `todo`. A self-test is a sequence of cipher calls with the
context it holds; any of them may fail, and so may every registration.
`srtp_crypto_kernel_status` tests the registered types again and ends the
process when one fails (`exited`). The application loads and replaces types of
its own.

**`BackEnd`, `CipherGcm`, `CipherIcm`, `AuthHmac`** have one operator for each
function of a cipher or authentication type in each back end, from a context to
a context: what it owns (`held`), what it returned, what it wrote. Allocation
takes one thing after the other and undoes what its error path names. The
libraries are external: what they seal, hash or encrypt is a value that says of
what, and what a failing call may have left behind is `Junk`. The built-in
counter mode keeps its keystream buffer and `size_t` arithmetic, the built-in
HMAC the block buffer, the padding and the uninitialised words of `sha1.c`.
**`PacketCrypto`** allocates a context of any kind, keys it, uses it for packets
with the calls `srtp.c` makes in their order, and frees it, while calls fail.

Every module defines mutants next to the definition they change: what a
plausible slip in that code would do. They are used only to confirm that the
properties notice them.

## What is checked

| run | configuration | shows |
|---|---|---|
| `stream` | AEAD, no RCC, two keys, both directions, `set_roc`, updates | types; window exact, no index recorded twice, index never back, recorded index is the cipher's, packets in order accepted, no key expires unannounced |
| `srtcp_stream` | 3-bit window, counter up to 7 | database exact, indices once, refused only for cause |
| `rtp_path` | two endpoints, AES-CM, RCC mode 2, R = 2, `set_roc` by signalling | only what was sent is received, under the sender's index; a carried ROC resynchronises from anywhere |
| `rtp_path_catch_up` | RCC mode 2, loss of the beginning | liveness: the receiver arrives at the sender's ROC |
| `session` | 2 SSRCs, also added twice; failures of streams, growth, clones | nothing leaked, nothing freed twice, keys shared with the template only |
| `session_failures` | every failure, no SSRC added twice | types, one entry per SSRC, updates keep index and direction, and the refinement of `SessionAbs`: no stream is lost but by a removal or an update that returns the failure |
| `crypto_kernel` | build with AES-GCM, four types and a module of the application, one failure anywhere | a secure kernel is complete; one entry per id; only tested types are registered, handed out or take another's place; no self-test keeps its context; when `srtp_init` succeeds |
| `stream_keys` | every profile, setters in any order, two master keys, one failure anywhere | a valid policy is never refused for its keys; every context has exactly its own derived key; no key octet stays in the buffer |
| `packet_transform` | five profiles, MKI, four services, RCC modes 0 to 3, cryptex, header encryption; altered and shortened packets | no access outside a buffer, the announced trailer suffices, packets come back, in place or not is the same, only genuine packets are accepted, exactly the right octets are encrypted |
| `packet_crypto` | 16 back ends, two packets, failing calls | sealed, encrypted and authenticated is what was asked for, as on a fresh context; nothing is held after freeing or a failed allocation |
| `stream_expired`, `gcm_long_aad` | | disagreements, see below |

The AEAD branch of the packet functions is in `stream`, the AES-CM branch and
RCC in `rtp_path`; the theorems cover every mode and rate.

**Bounds.** Widths are scaled, cases are not. With `SeqMedian = 2` and
`RocMax = 2` or `3` there are four sequence numbers, 8 or 12 indices before the
ROC wraps, and `MaxIndex` of 8 or 9 lets a stream pass the median and roll over
twice, and where `RocMax = 2` wrap. A window of 2 is left behind, shifted out
by one packet and cleared by a jump. `InitialLimit` and `CounterMax` are small
enough in `stream` for a key to pass the soft limit, expire and wrap, and in the
path runs large enough not to end the stream. `SrtcpStream` runs its counter
to the end. In `Session`, `InitialSize = 1` makes the second stream grow the
list, two SSRCs suffice for one clone and one stream of its own, and there are
enough addresses for an update to hold the old and the new stream at once.
`MaxIndex` and `MaxStreams` are bounds in guards that the code does not have.

In `crypto_kernel` and `stream_keys`, `MaxFaults = 1`: one library call or
allocation fails in a behaviour, at any point, and what it leaves is there for
all the calls that follow. The theorems about the kernel and the keys hold for
any number of failures. `MaxContexts` bounds the types of the contexts
handed out. The application's types include one that answers the built-in test
data, one that answers only the first one's, and one that fails its own. In
`stream_keys`, two master keys suffice for the second to find what the first
left in the buffer; key lengths are the real ones. `packet_transform` has real
header, tag and salt lengths; the MKI has at most 2 octets, payloads 0 to 4,
and the extensions cover one- and two-byte elements, padding, an element that
ends the list, lengths that overrun, and profiles no rule is for. `packet_crypto`
has the real `MAX_AD_SIZE` and SHA-1 block of 64, with message lengths around
every length at which the padding changes; the keystream block is 4 octets,
the block number ends at 3, so that the segment limit is met. `size_t` has 8
bits: the code only needs 2^w to be a multiple of the block. Packets without
confidentiality of 2045 to 2048 octets are in `gcm_long_aad` instead.

**Deadlock** is checked in every run but `crypto_kernel`, whose process may end
(`exit()`). `Keys` is a symmetry set in `stream`, where no property
distinguishes keys.

**Fairness.** Only `rtp_path_catch_up` assumes any. `WF(Send)`: the sending
application goes on sending up to the bound. `WF` of processing each packet in
the network that carries the ROC: a packet that was not lost is delivered, and
the receiving application calls `srtp_unprotect` on it; the call returns, as
every loop in it is bounded. Losing is confined to the packets below
`LossyBelow`, which include a rollover; without a bound on losses no packet
need ever arrive. Packets without the ROC, `set_roc` and forged packets get no
fairness, and may interfere.

## What is proved

The proofs hold for every value of the constants that satisfies the named
assumptions: `RdbxAssumption` (positive widths, a window of at most half of the
sequence numbers, which `srtp_policy_validate` and the rounding in
`bitvector_alloc` guarantee), `KeyLimitAssumption` (soft limit above 1, initial
limit not below it and inside the counter), `StreamAssumption` (what
`srtp_policy_validate` accepts as RCC mode), `RdbAssumption` (positive widths),
`SessionAssumption` (finitely many addresses, a list that starts with room for
one stream), `PolicyAssumption` (positive maxima), `StreamKeysAssumption`,
`FaultsAssumption` (a bound on failures, any number), `BuiltInsPass` (the built-in types answer
their own test data) and `AppAssumption` (the application's types and modules
have names of their own).

**`RdbxProofs`**: lemmas on the operators. `ModStep` and `ModProduct` carry the
arithmetic of ROC and sequence number; `GuessFacts` and `EstimateFacts` say that
a guess is within half of the sequence numbers of the index, does not go below
zero and equals index + delta in 48 bits; `CheckFacts`, `AddIndexFacts` and
`JumpFacts` say what the window operations do to an exact window.

**`SrtpStreamProofs`**: `TypeCorrect`, `WindowIsExact`, `RecordedOnce`,
`NeverBack`, `CipherIndexRecorded`, `InOrderAccepted` and `WarnedFirst`, one for
each property of `stream`, and `SingleDirection`. Every estimate is a
`GoodEstimate` (in range, in the right residue class, and far ahead when it
says so). The window being exact is inductive together with `TypeOK`: adding
shifts it, a jump clears a window that lies entirely behind the new index
*because it is no longer than the median*, and an update forgets the history
along with the keys. That an index is new when it is recorded, and that a packet
in order is accepted, then follow. Type correctness itself needs the shape of
the estimate, since a delta too far back would set a bit outside of the window.
`WarnedFirst` uses `LimitInv`: a key in the state "normal" has at least the soft
limit left, without which the wrapped counter could reach the hard limit
unannounced. Three theorems assume `~KeepKeys`, an update that brings new keys:
the code restores the index and not the window (below).

**`SrtcpStreamProofs`**: `RtcpTypeCorrect`, `RtcpDatabaseExact`,
`RtcpRecordedOnce`, `RtcpRefusedForCause`. The invariant is the exactness of the
database in its two uses, a counter for a sender and a window for a receiver.

**`RtpPathProofs`**: `AcceptsOnlySent` and `CarriedRocWorks`. `PathInv` says that
a packet in the network has the ROC and the sequence number of an index the
sender recorded (`OnTheWay`), and that what the receiver recorded was sent. The
step that matters is acceptance: a tag that verifies gives the receiver the
sender's ROC, and with the sequence number the sender's index, by
`PathIndexFits`. `CarriedRocWorks` is for services that have a tag to carry the
ROC in.

**`SessionProofs`**: `OnlyTemplateShared`, `MemorySafe`, `NothingLeaks`, for a
session of any size. `SessionInv` says that no address is listed twice
(`Simple`) and what the heap is (`Memory`): exactly the streams of the list and
the template are allocated, the keys each of them uses are allocated, and two of
them have the same keys only if those are the template's; if nothing that loses
memory may fail (`Tidy`), no other keys are. Sharing has to be in the invariant:
`srtp_stream_dealloc` spares what a stream has in common with the template, and
frees the rest because nobody else can have it. `MemorySafe` assumes that the
list of a new session can be allocated, `NothingLeaks` that the initialisation
of a new template and the list of an update do not fail; the code does not
satisfy them otherwise (below).

**`SessionTableProofs`**: `NoSsrcTwice`, `UpdatesKeep` and the refinement
`SessionIsTable`, if the application adds no SSRC twice, whatever fails.
`TableInv` adds that SSRCs are unique, that the template's direction is decided
and its clones have it (`Steady`), and that a dead session is empty. The
abstract table is characterised by what it stands for (`Represents`: its
domain, and the entry of each listed stream), which determines it, so that each
action only has to say what becomes of the streams; one lemma per action
(`...Table`) says what becomes of the table, and one (`...Moves`) which abstract
step that is. `Steady` is needed because a template update rebuilds the clones
from the new template: it leaves their directions alone only if they had the
template's. Each `...Moves` lemma also has to match the status: `LeftTable` shows
that exactly the streams whose contexts are freed leave the table, and only
`RemovalMoves` and `StopsMoves` use it.

**`CryptoKernelProofs`**: `UniqueEntries`, `TestedBeforeUse`, `SelfTestReleases`,
`ReplacementIsVetted`, `SecureKernelComplete`, `InitSucceedsExactly`,
`KernelTypeCorrect`. `KernelInv` adds to the properties that every load left to
do follows the test of the same type or is under way after it passed
(`WorkReady`), and that a context is held exactly between a test's `alloc` and
its `dealloc` (`TestProgress`). `CompleteInv` says that before the step that
makes the kernel secure, everything it has to have is registered or still to be
loaded ahead of that step. `InitSucceedsExactly` needs both directions of what
is left to do in `srtp_init`, which is `OutcomeInv`: when the call began in one
of the two good states and no call of the library failed, nothing it has still to
register is registered yet and it names nothing twice, so that no step can be
refused; when it began otherwise, a step that will be refused is still ahead, its
id or name being in the list.

**`StreamKeysProofs`**: `ValidPoliciesStart`, `SessionKeysAreExact` and
`NothingStaysBehind`, for any number of master keys and MKIs, any order of the
setters, both derivations and any failures. The first part shows that the
setters leave RTP and RTCP with matching crypto policies of known shapes
(`PolicyInv`), from which the lengths a derivation is asked for follow
(`Lengths`, `HeaderLengths`), within what the buffer and both derivation
functions take. The second describes the calls of
`srtp_stream_init_keys` without unfolding a recursive definition: `Runs` says
that a list of calls takes the buffer and the contexts from one state to another
if none of them fails, and it composes (`RunsBoth`, `RunsTail`), so that each
part of the function, the RTP keys, the header extension keys, the RTCP keys,
has a lemma of its own that ends with the octets in the buffer being of the
right label. The inductive invariant is `KeysInv`: what is left to do, run from
the present state, ends with every context of the current master key as
`KeyFor` defines it; the master keys before are done; an empty context is one
the calls still ahead will key, or the call has failed. A statement about the
calls to come is needed because a context is keyed from a buffer that the calls
before it filled piece by piece, over what an earlier key left there.

**Only model-checked**: `PacketTransform` and `PacketCrypto`, whose properties
compare recursive functions over octets with a reference; `TypeOK` of `Session`,
which has the capacity of a list as a power of two times the initial size, and no
installed prover reasons about powers; and liveness. Liveness and `ENABLED` are
out of reach of the prover, and so is what a recursive definition computes for
every input.

## Where code and documentation disagree

Two runs check one statement each, and TLC's counterexample is what the code
does.

* `stream_expired`: `srtp_key_limit_update` decrements first and never reads
  its state, so a key that reported the hard limit is usable again on the next
  call; `include/srtp.h:1113` promises that no more packets can be protected.
* `gcm_long_aad`: an RTCP packet of 2045 to 2048 octets without confidentiality
  fills the AAD buffer of the NSS and Mbed TLS back ends before the trailer is
  added. The packet is refused, and what was collected stays and is put before
  the AAD of every later packet (`crypto/cipher/aes_gcm_nss.c:282`,
  `crypto/cipher/aes_gcm_mbedtls.c:354`); wolfSSL's `set_iv` drops it.

More can be read off the models, where the properties are stated so as to
exclude them or a constant selects them:

* an update restores the index of a stream and not its window, so that with
  unchanged keys a packet can be accepted twice (`srtp/srtp.c:3828`,
  `include/srtp.h:747`; `KeepKeys`); a ROC that is pending is lost;
* RCC modes 1 and 2 with a service that does not authenticate pass validation;
  the receiver reads a ROC nobody wrote (`srtp/srtp.c:2759`,
  `include/srtp.h:461`; `AuthService`);
* a session whose list cannot be allocated is cleaned up through a null pointer
  (`srtp/srtp.c:3551`; `Failures`);
* a template update that fails in its initialisation, or in allocating the new
  list, frees only the outermost block of the new template
  (`srtp/srtp.c:3750`; `Failures`);
* a template update that fails midway destroys streams that are not the
  template's (`srtp/srtp.c:3770`), which the comment at `srtp/srtp.c:3639` calls
  "copied unchanged" (`UpdateTemplateStops`);
* `srtp_crypto_kernel_status` returns no error of a self-test: it ends the
  process (`crypto/kernel/crypto_kernel.c:187`);
* after a failed `srtp_init`, a second call fails until `srtp_shutdown` was
  called, and so does a second call after a successful one (`InitOutcome`);
* `srtp_get_protect_trailer_length` answers ok and 0 for a template and an MKI
  index it does not have; with RCC mode 3 and an MKI of 128 octets the trailer
  is longer than `SRTP_MAX_TRAILER_LEN` (`include/srtp.h:89`);
* an early return of `srtp_stream_init_keys` leaves the key derivation's cipher
  context allocated (`NothingLeftBehind` asks for its release only when the
  call succeeds);
* cryptex without confidentiality: unprotect still rewrites a cryptex profile;
  zeros *before* the first extension element are read as an element;
* the Mbed TLS HMAC does not abort an operation whose call failed, and the
  wolfSSL HMAC starts a message with no call at all: after a failing library
  call the next message may not start afresh. Failures of these two are not in
  `Faulty`. The counter modes of the libraries do not stop at 2^16 blocks, and
  are given no packet that long;
* no code raises `event_packet_index_limit`, and past 2^48 packets the guessed
  ROC wraps (`RecordedIsCipherIndex` is stated modulo 2^48);
* a ROC set by the application that does not move the index far ahead stays
  pending into the next rollovers;
* an SSRC added twice, which `include/stream_list_priv.h` leaves undefined, can
  survive an update with its old key (`AddDuplicates`).

## Not modelled

* **AES rounds and tables** (`crypto/cipher/aes.c`): a fixed function of its
  input, without state or choices. The models take it (`KeystreamBlock`), and
  SHA-1's compression, as injective.
* **The derivation inside OpenSSL 3**: which lengths are accepted is decided in
  the library.
* **Cloning and destroying a policy, its getters, and the crypto policies no
  profile selects**: they copy or return fields.
* **Error messages, the log handler, debug modules' switches and listings, user
  data pointers**: no other state depends on them. That reporting may fail to
  start, and that debug modules are registered by name, is in `CryptoKernel`.
* **Word-level bit vectors and hexadecimal conversions**
  (`crypto/math/datatypes.c`): a bitmask is a set, `bitvector_left_shift` is
  modelled by what it does to it; the conversions serve tests and logs.
* **The index arithmetic of `srtp_stream_list_for_each`**: a loop over the list
  is one step in `Session`.
* **Contexts of the null cipher and null authentication**: they hold no state;
  what they do to a packet is in `PacketTransform`.
* **Threads**: the library has none, and a session is used by one at a time.
