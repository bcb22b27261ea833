# CometTextel: specifications

CometTextel sends and receives SMS messages through a GSM modem on a serial
line. It is a C++20 library with a C API and wrappers for Python, Go, .NET,
PureBasic and FreeBASIC. This directory holds TLA+ modules for it, the TLC
configurations that check them on small instances, and proofs for TLAPS.

Paths below are relative to the repository (`src/modem.cpp`,
`include/comettextel/modem.hpp`).

## 1. Inventory

| component | state it keeps | operations | what makes it correct |
|---|---|---|---|
| `GsmModem` (`modem.cpp`) | `mutex_` (recursive), `status_reports_`, the port | `open_and_init`, `initialize`, `send_message`, `run_at_command`, `request_message_list`, `delete_message`, `poll_response`, `wait_for_response`, `wait_until_ok`, `poll_status_report` | exchanges of different threads do not overlap; a result belongs to the command it is returned for; segments go out in order; the modem is never left waiting for message text; every call returns |
| URC demultiplexer, `demux_urcs` and `classify_response` | the text of a `ResponseBuffer` | strip complete URCs, decode `+CDS`, classify | the way the text is cut into reads does not matter; nothing but URCs is removed; reports keep their order |
| C API (`c_api.cpp`) | a heap handle around `GsmModem` | one function per operation, copies into fixed structs | `list` and `delete` act as one exchange; strings fit their fields |
| PDU codec (`pdu.cpp`) | none | encode, decode, segment, hex, septets | decode inverts encode; lengths agree with what follows them; segments fit and do not cut a character; nothing is read from a PDU that lost its end |
| concat reassembly (`pdu.cpp`) | none (a map per call) | `merge_concat_group`, `reassemble_messages` | a complete set in any order gives one message; nothing is lost or mixed |
| `SerialPort` POSIX, Win32, memory (`src/serial/`) | descriptor or handle, memory queues and responder | open, close, read, write, inject | no handle leaks whatever step of open fails; bytes are handed out once and in order; a session leaves nothing to the next |
| types and errors (`types.cpp`) | none | names and categories | every error code has a meaning in the C API |
| SDKs (`sdk/`, `nuget/`) | a pointer to the C handle, a flag that it is closed | wrappers | the handle is not used after it is freed |
| examples, tests, build, CI, scripts | - | - | - |

Interactions. A program's threads call `GsmModem` directly or through the C
API. Every public method takes `mutex_` for its whole duration and runs one or
more *exchanges*: write a command, read until a final result or a deadline.
`send_message` runs two waits per segment (prompt, then result). Each read is
followed by `demux_into_queue`, which takes `+CDS` reports out of whatever was
read and queues them; `poll_status_report` takes them from the queue, reading
the port when there are none. `port()` gives the port to anyone, and its
`close` takes no lock of `GsmModem`. The PDU functions of the C API keep no
state; a message goes from `encode_segments` through the network to `decode`
and, by `ct_modem_list`, through reassembly into a `ct_message`. The modem answers after any delay and
sends URCs at any time.

Hard behaviours: calls of several threads; results that arrive after the
deadline; URCs in the middle of responses and cut in two by reads; a modem that
is silent, rejects, or leaves a prompt unanswered; write and read errors half
way through an exchange; the port closed, and opened again, under a call; parts
of messages that arrive in any order; PDUs that lose their end. `PROJECT.json`
("hazards") lists them one by one, at their lines.

## 2. Modules

| module | models |
|---|---|
| `UrcText` | text as tokens; searching, erasing and classifying it (`modem.cpp:50-158`, `480-562`) |
| `UrcDemux` | `demux_urcs` on a growing buffer, for arbitrary text |
| `GsmModem` | threads, the mutex, every exchange, the serial line and the modem (`modem.cpp:188-748`, the two-lock calls of `c_api.cpp`) |
| `ReportChannel` | abstract: a channel that may lose reports, and hands out the others once, in order |
| `ConcatSms` | operators: `encode_segments` cuts a text into parts, `reassemble_messages` joins listed parts (`pdu.cpp:205-242`, `425-460`, `679-705`, `954-1075`, `1405-1563`) |
| `SmsDelivery` | senders, a network that reorders, repeats and loses parts, and a receiver that lists its storage with `parse_message_list` |
| `TextCodec` | operators: hex, UTF-8, the GSM alphabet, UTF-16, septets packed with fill bits (`pdu.cpp:28-207`, `245-272`, `419-423`, `468-850`) |
| `PduCodec` | operators: a message to SMS-SUBMITs and a PDU of any kind to a message, octet for octet (`pdu.cpp:50-119`, `282-411`, `857-1401`, `modem.cpp:364-384`) |
| `PduPath` | a message's way through the PDU functions of the C API, a network, and `ct_pdu_decode`, `ct_pdu_decode_status_report` or `ct_modem_list` |
| `SerialPort` | `open`, `open_memory`, `close`, `write`, `read` of the two platforms and the memory port, step by step, in several threads (`src/serial/`) |
| `BytePipe` | abstract: a port that is closed or open, and in memory hands out bytes once and in order and forgets them when it is closed |
| `MCUrcDemux`, `MCGsmModem`, `MCSmsDelivery`, `MCPduPath`, `MCSerialPort` | the values of the constants for TLC |
| `UrcTextProofs` | lemmas about the operators of `UrcText` |
| `SequenceLemmas` | lemmas about sequences, folds and recursive functions that the next ones share |
| `UrcDemuxProofs`, `DeliveryProofs`, `PduProofs`, `SerialPortProofs` | theorems about `UrcDemux`, `SmsDelivery`, `PduPath` and `SerialPort` |
| `GsmModemProofs`, `ExchangeProofs` | theorems about `GsmModem`, the second extending the first |

`SmsDelivery` extends `ConcatSms`: the two ends of a long message, one after
the other. `GsmModem` extends `UrcText`, and instantiates `ReportChannel` for the
refinement. `PduCodec` extends `TextCodec` and instantiates `ConcatSms` with the
limits of real parts, so that one definition of splitting and joining serves
both; `PduPath` extends `PduCodec`. `SerialPort` instantiates `BytePipe`. It
stands beside `GsmModem`, whose port is the same one seen from above: reads of
any length, failing or closed. The proof modules extend the modules they are
about.

### Text

Text is a sequence of tokens, each a kind and a mark. The kinds are what the
code's searches tell apart: CRLF, the four URC tags, text that begins with a
digit (a PDU length) or does not, a PDU line, an information line, the final
results and the prompt. The mark is a history variable in the text: it says
which command a result answers, or which report a PDU holds; the code never
looks at it. Reads return any prefix in whole tokens, so URCs and results
arrive in pieces, but a tag or a CRLF is never cut inside. Of
`classify_response` the CRLF forms are modelled, and the lone `\r` or `\n`
endings are not. Words such as `OK` or `>` inside information lines are not
modelled either.

### State and actions of `GsmModem`

`owner`, `reports` and `portOpen` are `mutex_`, `status_reports_` and
`port_->is_open()`. Per thread, `pc` is the place between two reads or writes,
`step` the exchange of the call (init command, CNMI candidate, segment), `cmd`
the number of its command, `buf` the `ResponseBuffer` in use, `late` whether
the current deadline has passed. `rx` and `tx` are the two directions of the
line; `mode` says whether the modem is in text entry. `issued`, `sent`,
`delivered`, `granted`, `made` and `closes` are history.

| actions | code |
|---|---|
| `Start`, `Enter`, `Refuse`, `OpenFails` | a call begins, takes the lock and makes its first checks |
| `WriteCommand`, `WriteCommandFails` | `write_string`; for `list` and `delete` the call of the C++ API ends here and the lock is free |
| `WaitAfterRequest` | the C API's `wait_until_ok` after it |
| `Poll`, `EraseUrc`, `PollAgain`, `EndOfWait`, `Expire` | `wait_for_response_unlocked`, with the last poll after the deadline; `wait_until_ok_unlocked` |
| `ReadPrompt`, `ReadPromptFails`, `PromptRead`, `NoPrompt` | `expect_prompt` |
| `WritePdu`, `WritePduFails` | the rest of `send_encoded_pdu` |
| `TakeQueued`, `FirstDrain`, `Drain`, `DrainAgain`, `TakeDrained`, `NoReport` | `poll_status_report` |
| `ClosePort` | `port().close()` from outside, at any moment |
| `Answer`, `Submit`, `Swallow`, `SendReport`, `SendNotice` | the modem: external |

`Conclude` is common to all exchanges: by the code they ended with, the call
goes on to its next exchange or returns. One turn of `demux_urcs`' loop is one
`EraseUrc`; the thread holds the mutex meanwhile, so nothing else can see the
intermediate text. The recursive mutex is taken twice in `open_and_init` only,
which is one `Enter` here.

`poll_response` and `wait_for_response` on a buffer that the caller keeps
between calls are covered by `UrcDemux` and, for `wait_until_ok`, by the wait
of `list` and `delete`; they are not calls of their own in `GsmModem`. Text
left in such a buffer from before is not modelled there.

### Long messages

In `SmsDelivery` a text is a sequence of units, and a character has one unit or two
(`hi`, then `lo`; `FirstHalf` names the units that begin one of two): ESC and a code of the extension table in the 7-bit alphabet, a surrogate
pair in UCS-2, any bytes of an 8-bit text. `Chunks` is the loop of
`encode_segments` over `gsm7_chunk_end` and `split_ucs2_octets`. Both step back
by one unit when a part would end in `hi`; the branches of `gsm7_chunk_end` for
a limit below two units cannot be reached (`LimitAssumption`). The two maps of
`reassemble_messages` are written as what they hold: `Bucket` is the group of
an entry, `Slot` what `order` has for it. `SeqsVisited` is the set of numbers
the loop at `pdu.cpp:1542` asks for: its counter is a `uint8_t` and `seq <=
total` is always true when `total` is the largest of its values, so the loop
comes to 0. `Width` is the number of bits of that counter and of the reference.

The storage is append-only; the index of an entry is its place. `peer` is the
sender as the receiver sees it. An entry that cannot be decoded is left out of
the list, as `parse_message_list` does. A UCS-2 part that ends in half a pair
cannot be decoded; in the 7-bit alphabet its ESC becomes a space and the next
part begins with another character (`broken`).

### PDUs

A PDU is the sequence of its hex digits and a text that of its octets, so every
length, bit and digit pair of the format is there. Addresses are sequences of
digits in which `Plus` is the sign that `normalize_address_digits` drops.
`AppendPacked7bitAt` gives for each octet the bits that fall into it, where the
code shifts and carries; `Decode7bit` takes the seven bits of each septet. The
error paths of the code are results with an `ec`, and each takes effect where
the code returns. `UserDataOctets` stands for 140 octets of user data and
`TextCap` for the 512 of `user_data`; `TextCapAssumption` says what they have in
common, that one message always fits.

In `PduPath` a behaviour is one message: encoded by one of the two calls, handed
on part by part, in any order, by a network that reads the submitted PDU and
builds an SMS-DELIVER or a status report of it, and read once. `OtherPhone`
brings PDUs that `encode_segments` does not make: other elements in the header,
16-bit references, headers cut inside. `Cut` takes away any number of digits at
the end.

### The serial port

A step of `SerialPort` is what other threads can see happen at once: the check
`is_open`, a system call, or a function of `serial_memory.hpp`, which runs under
the memory's mutex. `open` is the check of its arguments, the system's open,
`ConfigSteps` calls that may each fail, and the step that keeps the handle.
`call[t].at` is the place in the call, `call[t].handle` the local handle.
`open` (the variable) is the system's table of handles, `handed` a history of
what reads of the memory port returned since the last close.

One thread, the owner, opens and closes; several owners would race on `impl_`,
which nothing in the code allows for. Everyone reads, writes and feeds the
memory port. `Response` is the responder of the tests: echo, or none. Counts of
bytes of the system's reads and writes are abstract, and so is what a handle
refers to: a handle closed between `MemoryRefuses` and `SystemTransfer` may fail
or belong to another file already.

## 3. Runs

Passing runs (`PROJECT.json` names the mutant that breaks each property):

| run | question | bounds |
|---|---|---|
| `urc_demux` | `ChunksDoNotMatter`: is demultiplexing piece by piece the same as at once, for any text? | texts of up to 7 of 6 tokens: a whole two-line report and a tag after it, or before it |
| `exchange` | `ExchangeUnbroken`, `OwnReply`, `SegmentsInOrder`, `SuccessIsEarned`, `NoCommandInText`, `TypeOK` | 2 threads, 2 calls each of an AT command and a two-segment message, one report; the modem may be silent. Two calls on each side suffice for one to follow and one to overlap another |
| `calls` | `SuccessIsEarned` and `UrcTextStripped` for `open_and_init`, `initialize`, `run_at_command`, `send_message` and `poll_status_report`, with write and open failures, silence, and every kind of URC | 1 thread, 3 calls (a failed one, a repeated one, and one after the other), 1 report, 1 URC, the port never closed |
| `reports` | `ReportsInOrder`, `LostOnlyWithFragment` with reads cut anywhere, and `ImplementsChannel`, the refinement to `ReportChannel` | 2 threads, 1 call, 2 reports, 1 close: two reports are what an order needs |
| `returns` | `HolderReturns`, under fairness, all operations and all faults | 1 thread, 1 call, 1 report, 1 close |
| `concat` | `CompleteSetsJoined`, `NothingDropped`, `JoinedIsSent`, `ListedInOrder`: do the parts of long messages come together again? | 7 messages of up to 4 units with limits of 3 and 2 units, so of up to 3 parts, 2 of them sent; a storage of 5, which holds both or one with parts twice; 3 parts of other phones. They include a cut inside a character in each coding, one reference from two senders, and two texts with one checksum. `Width` is 3, so no message reaches the largest number |
| `pdu` | `SubmitReadsBack`, `TextReadsBack`, `LengthAnnounced`, `DeliveredAsSubmitted`, `ListedIsSent`, `HeaderRead`, `ReportRead`, `OthersRefused`, `CutRejected`: is what is read what was sent, through every length field and every branch of the codec? | `UserDataOctets` 14, so 16 septets, 7 units or 14 octets in one message and 9, 4 or 8 in a part: texts at, below and above these limits, with 1 to 3 parts, `TextCap` 41. 14 is a multiple of 7, as 140 is, so septets fill the octets and are padded as in the code. Every character of the alphabet and its extension occurs; septet 0, which is `@`, ends a text; ESC pairs and surrogate pairs fall on a cut; headers of 5, 6, 7, 12 and 13 octets need none, one or two fill bits; one number is longer than the field it is read into; PDUs are cut at every digit |
| `serial` | `HandlesOwned` and `ImplementsPipe`, the refinement to `BytePipe` | both platforms, 2 threads (the owner and another), 2 handles (one that leaked and one more), `MaxBytes` 3 with 2 different bytes: a byte before, inside and after what a read takes |

`MaxCalls`, `MaxReports`, `MaxNotices`, `MaxCloses`, `MaxSent`, `MaxStored` and `MaxBytes`
bound only how much happens in one behaviour; nothing in the program depends on them.

`Timely` means that a modem which answers does so before the deadline; the
silent modem then still causes timeouts, but no answer arrives late.
`CutReads` allows reads to end inside a URC or a result. Both are assumptions
about the outside. The violation runs show where the code does not do what the
repository says of it:

| run | property | what it shows |
|---|---|---|
| `delete_interleaved` | `OwnReply` | `ct_modem_delete` (and `ct_modem_list`) write and wait under two locks; another thread's exchange fits in between and the results are swapped |
| `report_lost` | `NoReportLost` | a `+CDS` cut by the last read of a poll is dropped with the buffer |
| `concat_full` | `CompleteSetsJoined` | with `Width` 2, a message of 3 parts is not joined when all have arrived; with 8 bits that is one of 255, which `encode_segments` makes |
| `field_cut` | `TextFieldsAreUtf8` | a joined message longer than `user_data` ends in the middle of a character when `ct_modem_list` returns it; a message of one part always fits |

Six weak points have no run of their own. The first four can be seen by
changing a constant of a passing run:

* `exchange` with `Timely = FALSE` and without `NoCommandInText` (see below) violates
  `OwnReply`: the late OK of a command that timed out is returned as the
  result of the next one. `run_at_command` clears its own buffer
  (`modem.cpp:438`), and nothing discards what is on the line.
* `calls` with `Notices = {"cmtAlpha"}` violates `UrcTextStripped`: of a
  `+CMT: ,24` block, the form with the optional alpha field, only the header is
  stripped (`modem.cpp:132`).
* `exchange` with `"write"` in `Faults`, or without `Timely`, violates
  `NoCommandInText`: a call that fails between the prompt and the Ctrl-Z leaves
  the modem in text entry. No document promises otherwise, so it is a limit of
  the code and an assumption of `exchange`.
* `calls` with `MaxCloses = 1` violates `SuccessIsEarned`: when the port is closed
  under a call and opened again, the modem's answer to the command of before the
  close may come after the open and be taken for that of the first command of
  `initialize`, whose own answer the next call then takes for its own.
* A received part numbered 0 looks like a joined message
  (`is_reassembled_concat`); `JoinedIsSent` leaves it out.
* `JoinedIsSent` and `CompleteSetsJoined` except two different texts of one
  sender with the same reference, coding and number of parts: nothing in the
  parts tells them apart, and the automatic reference is a checksum that does
  not see the order of the bytes.

What is said of a text and of a delivered part (`SubmitReadsBack`, `TextReadsBack`,
`DeliveredAsSubmitted`, `ListedIsSent`) is said of calls that are `Sound`: their text is UTF-8 of
characters, and each address has fewer than 256 digits. `utf8_next` does not check
continuation octets or surrogates; a text with one half of a surrogate pair is encoded,
and the part is then refused when it is decoded. An address length wraps in its
octet (`pdu.cpp:316`); `OthersRefused` and `CutRejected` need the addresses only
(`AddressesFit`), `LengthAnnounced` the service centre only. No call of the run has an address
that long, so these bounds decide nothing there; the theorems need them. `CutRejected`
excepts a status report that lost all its optional parameters, which is a whole
report again.

Fairness (`FairSpec`). A thread inside a call keeps being scheduled, and the
deadline of its loop passes at last: `WF(Run(t))` and `WF(Expire(t))` for
every thread. The code justifies both: the loops only read, which returns
within the port's timeout, and sleep; deadlines are of `steady_clock`. Nothing
is assumed of the modem, and nothing of who gets a free mutex (a
`recursive_mutex` is not fair), which is why the liveness property is that the
holder gives the mutex back, and not that every waiting thread gets it.

The runs of `GsmModem` check deadlock; when every thread has made its calls
and the modem has handled all input, `Finished` stutters. `urc_demux` ends when
its text is used up, `concat` when its storage is full, `pdu` when its message is
read. `serial` checks deadlock and never stops.

## 4. Proofs

Each theorem holds for any set of threads, calls and bounds. Assumptions on
constants are `ThreadAssumption`, `CallAssumption`, `BoundAssumption` and, of
`UrcDemux`, `AlphabetAssumption`: types, and that no thread is `NoThread`. Of
`SmsDelivery` and `PduPath`:

* `LimitAssumption`: a part holds at least 2 units and no more than a message without
  UDH (153 and 160 septets in the code, for example). `UserDataAssumption`:
  `UserDataOctets` is from 11 to 140; with fewer a part could not hold the header of its
  number and a character.
* `HalfAssumption` and `MessageAssumption`: what is sent was made by the code's encoders,
  which make whole characters (`WholeCharacters`). `StrayAssumption`: parts of
  other phones have any text and any numbers, but among themselves they are no whole message;
  a phone that sends one is a sender, and its message is one of `Messages`.
* `RequestAssumption`: a request is any sequence of octets as the text, any numbers
  and any options of the type of their parameter. `PhoneAssumption`: what other phones send
  are octets, no more than a message has.

Only `SetsJoined` has a hypothesis of its own, `ShortMessages`.

`UrcTextProofs` has the lemmas about text. `EraseFirstShorter`: erasing the first
complete URC leaves a shorter text, so the loop of `demux_urcs` ends.
`ErasedReportsAreMarks`, `UrcEndInText`: what is decoded are reports, and a complete
URC ends inside the text. `ErasedPlace`, `ErasedIsUrc`, `AppendKeeps`: the loop erases
one whole URC and nothing else, and text behind a complete URC changes neither its
end nor its report.

### The mutex (`GsmModemProofs`)

For any faults, `Timely` or not:

* `TypeCorrect`: `Spec => []TypeOK`, one case per action. `EraseUrc` needs the lemmas
  above.
* `ExchangesSerialize`: `Spec => []ExchangeUnbroken`. The property is not
  inductive: it says nothing of a thread that is about to write, which could
  write between the command and the wait of another. `ExchangeInv` adds that any
  thread between its `lock_guard` and its return is the owner
  (`OnlyHolderInside`), that the command of one in an exchange is the last one,
  and that only list and delete are ever between two locks
  (`LastCommandIsHolders`). Every action of a thread needs either a free mutex
  or a thread inside, so no other thread is inside (`OthersOutside`); the lemmas
  per group of actions follow from that. All later invariants contain this one.

### Status reports (`GsmModemProofs`, `ExchangeProofs`)

For any faults, any cuts of the text and the port closed at any moment:

* `ReportsOrdered`: `Spec => []ReportsInOrder`. The property is about `delivered`
  alone; `OrderInv` follows the reports back to the modem. What was delivered and
  what is queued increase and are reports that were sent, and the complete reports
  of `Ahead`, which is the holder's buffer and then the line, increase and are newer.
  A URC that is torn may have the PDU of one report behind the tag of another, but
  text only gets thinner, so its order stays (`ThinnedOrder`).
* `OnlyFragmentsAreLost`: `Spec => [](LostOnlyWithFragment)`, an action property. `FlowInv`
  adds to `OrderInv` that the text ahead is made of whole URCs, but for one cut by a
  close (`WholeLine`), that only a demultiplexing thread has one to erase (`Tidy`), and
  that a closed port has nothing to read. So a buffer is dropped only when it has
  no complete URC, and a report lost with it is one whose URC it held in part.
* `ModemIsChannel`: `Spec => ImplementsChannel`, from `FlowInv`. Taking a report maps to
  `Take`, the oldest by `OrderInv`; sending one to `Emit`; dropping a buffer or closing
  the port to `Lose`, erasing a URC to a stutter: a report only moves to the queue.
* `UrcsStripped`: `UrcsUncut` implies `Spec => []UrcTextStripped`. `UrcsUncut` is the
  assumption of the run `calls`: no read ends inside a message of the modem, and
  no `+CMT` has the optional field that `erase_length_urc` takes for the length.
  `StripInv` says that the line and every buffer are made of whole messages, so a URC
  that has begun is complete, and is erased before the text is classified.

### Exchanges (`ExchangeProofs`)

The hypothesis `Promptly` is the assumption about the outside that the runs `exchange`
and `calls` make: the modem answers within the deadline or not at all (`Timely`), the port is not
closed, reads do not fail, and no call is `list` or `delete`, which give up the mutex.
Without any of them a result of an earlier command can be waiting when the next
one begins, as section 3 shows, and the theorems are false. Reads may be cut anywhere,
the modem may be silent, writes may fail.

`AnswerInv` is one invariant for four theorems:

* `ReplyInv`: at most one answer is ahead of the caller that waits, to its own last
  command and of a kind that can be expected; while its input is not handled there
  is none; when nobody waits the line is free of answers and of input. `OwnReply`
  follows (`AnswersAreOwn`), and so does that a call begins with a clean line, which is what makes
  the invariant inductive.
* `GrantInv` counts: the exchanges granted to a call are those before its current step, and
  perhaps the current one when it waits; for `initialize`, the three commands
  and perhaps one candidate. `SegmentsInOrder` (`SegmentsSerialize`) and
  `SuccessIsEarned` (`OkIsDeserved`) follow.
* `OkInv`: an OK on the line stands between line ends, no URC takes it away, and when the
  deadline passes it has been read with the line end behind it. Without it a command
  that was granted could time out, and `initialize` would go on to a second `CNMI`.
* `NoCommandIsText`: `Spec => []NoCommandInText`, with the further hypothesis that writes do
  not fail: a write of the PDU that fails after the prompt leaves the modem in
  text entry, which is a hazard listed at `modem.cpp:399`. `TextInv` follows the prompt from the modem
  to the PDU: on its way or read, its caller about to write, the PDU on the line. A call that gives up had
  no prompt, because its deadline passes only when nothing is under way.

### The demux loop (`UrcDemuxProofs`)

* `ChunksNeverMatter`: `Spec => []ChunksDoNotMatter`, for any text. The property speaks of
  a loop at rest; `DemuxInv` speaks of every state: what was decoded, and what the
  loop will still make of the buffer, is what it makes of everything fed at once.
  It rests on `EraseCommutes` (appending text does not change what is erased
  first) and `FeedLater` (so the loop on a text, and then on what it left with more
  behind it, is the loop on both). `AtOnce` is a recursive function: the lemmas about it
  go by induction on a set of naturals (`CountUp`), over the turns as a function
  (`TurnsExist`, `AtOnceTurns`).

### Long messages (`DeliveryProofs`)

* `ListedByIndex`: `Spec => []ListedInOrder`. The invariant of the states is small
  (`DeliveryInv`: the storage holds parts of messages, or strays); the work is in the
  operators. A flattened sequence has the elements of its pieces in their order
  (`FlattenOrder`), so the decoded entries have rising indices (`EntriesRise`) and the
  list follows the slots of the entries. A slot holds only parts of an incomplete group,
  or one message (`SlotHas`); a joined one has the lowest index of its group, and that is
  the index of the entry whose slot it is (`MergedIndex`). That the total of a part is a
  number needs that a text is cut into a sequence of parts (`ChunksAreParts`): the cut
  moves forward each time (`ChunkEndAhead`), because a part has room for a character of
  two units. 
* `NothingLost`: `Spec => []NothingDropped`. Each entry belongs to one place of the list (its own, or
  that of the first part of its group), the places have disjoint sets of entries, and what
  stands in a place has exactly the units of its members (`SlotHits`): a bijection
  between the units of the list and those of the entries, peer by peer (`GlueHits`, `ListHits`).
* `WholeWasSent`: `Spec => []JoinedIsSent`. A whole entry is the message of a complete group
  (`SlotWhole`); one of its parts was sent, because strays alone complete none (`GroupHasSent`); and
  undisturbed, every part of the group is the one with that number of that
  message, so their texts in order are its text (`GroupOfSent`). That decoding a part
  gives the units of the chunk needs that no chunk ends inside a character (`ChunksClean`).
* `SetsJoined`: `ShortMessages` implies `Spec => []CompleteSetsJoined`: the group of a message
  all of whose parts arrived is complete (`SetIsComplete`), stands in the list
  once (`GroupListed`) and is the message. `ShortMessages` says that no message has as many parts as
  the numbers allow, and `concat_full` shows why it is needed.

Two statements are as they are because a proof of a simpler one fails.
`CompleteSetsJoined` counts the whole entries with the key of the message, not
those with its text: the same text sent under another reference is a second message, and
a received part numbered 0 may have any text. And `Undisturbed` excludes every part
with the message's key and a number of its total, whatever else it holds, because
the key is all that `reassemble_messages` compares.

### PDUs (`PduProofs`)

Every theorem holds for any requests, phones and size of the user data.
`CallInv` says what an encode call may have returned: lines that are each a TPDU behind
a service centre, with the octets of the header in their places and user data that is
as long as it says (`AreLines`), and, of a text that is sound, user data that can be read
with the coding and number of its part (`AreParts`). `AirInv` says that what is
on its way is one of the PDUs that the network or a phone makes, or a beginning of
one that was cut; `ReadInv` that what a call returned is what decoding says of that PDU.

* `TpduAnnounced`: `Spec => []LengthAnnounced`, from `CallInv`: the two digits `CmgsLength` reads are the
  length of the service centre as it was written.
* `SubmitsReadBack`: `Spec => []SubmitReadsBack`. An address reads as its digits (`AddressRead`, with
  `SwappedBack`: swapping the digits of each octet twice changes nothing), so the decoder comes
  to every field where `LineAt` has it; each bit of the first octet is found
  (`FlagBits`); and the user data reads (`SegmentReads`). For septets this
  needs that their packing keeps the octets of the header (`PackedKeeps`), for UCS-2 that no
  part ends inside a pair (`EncodedPaired`, `PairsJoined`).
* `DeliveriesRead`: `Spec => []DeliveredAsSubmitted`. The network finds the user data behind the
  validity, if there is one, and puts it behind a header of its own (`DeliverAt`); both PDUs
  then read through the same user data (`PartDelivered`), text included.
* `ReportsRead`: `Spec => []ReportRead`, from the octets of a report one by one and the
  bits of the indicator (`ReportWhole`).
* `ReportsOnly`: `Spec => []OthersRefused`: the type bits of every other PDU are not those of a report,
  and `DecodeWhole` says that its decoding gives no report.
* `CutsRefused`: `Spec => []CutRejected`. Half an octet is no PDU; without its last
  octets the user data is shorter than its length says (`Sized`, `DecodeCut`), or a field
  is missing. A part of a report is read only when just parameters are missing (`ReportPart`).

Here too the proofs found where a statement must be narrower: the recipient of a
report is what fits the field of 32 octets (`ReportRead`); a text with half a surrogate pair is
encoded and delivered, but not decoded (`DeliveredAsSubmitted`); an address whose length
wraps leaves digits where the decoder looks for the next field (`OthersRefused`,
`CutRejected`).
What the octets of a text are, as characters, is not part of these theorems: see below.

### Lemmas about recursion (`SequenceLemmas`)

`FlattenSeq`, `Chunks` and the folds are recursive functions. That there is a function which
satisfies the recursion is shown step by step, as a sequence of turns that can always be
made one longer (`RunExists`, `DescentExists`), by induction on a set of naturals (`UpTo`,
`DownTo`): the library's induction theorems take an operator, which the provers cannot
instantiate. `FlattenSpreads` and `SpreadOnce` say where each element of a flattened
sequence comes from, `FlattenLength` how long it is.

### The serial port

`SerialPortProofs` proves, for any threads, handles, bytes and `MaxBytes`, from
`OwnerAssumption` and `BoundAssumption`:

* `HandlesNeverLeak`: `Spec => []HandlesOwned`. It is not inductive: an `open` of
  a second thread, or of the owner with a port already open, would lose a handle
  when it keeps its own. `IInv` adds `OwnerAlone` (who opens and closes; past its
  check, `open` has found the port closed; it holds a handle exactly from the
  system's open on) and `ClosedIsEmpty` (memory and device are never both in use,
  and a memory port that is not enabled is empty). The lemmas `ReturnInv` and
  `GoOnInv` do the common work of all actions that end a call or go to its next
  step.
* `PortIsPipe`: `Spec => ImplementsPipe`, from the same invariant. `Keep` and
  `OpenMemory` map to `Open`, because the port is still closed then; the two steps
  of `close` map to `Close`, one of them possibly to a stutter; `MemoryWrite` and
  `PushRx` to `Write`, `MemoryRead` to `Read` or, of an empty queue, to a stutter;
  everything that works with the device changes nothing of the pipe. A late write
  of an earlier session meets a closed memory or belongs to the new session
  whole: that is why the mutex and `enabled` suffice.

### Model-checked only

`HolderReturns` is liveness under fairness, which TLAPS does not reach here.
`TextReadsBack`, `ListedIsSent` and `HeaderRead` are about characters: that the conversions between
UTF-8, the GSM alphabet, UTF-16 and packed septets are each other's inverse, for
texts of any length, and so induction over the data of several folds at once.
What is proved of them is that every part is read, with its numbers, and reads the same
when it was delivered (`SubmitsReadBack`, `DeliveriesRead`), and, of `SmsDelivery`, that parts that read as their
chunks come together to the text (`WholeWasSent`, `SetsJoined`). The four violations need no proof.

## 5. Not modelled, and the plan

Not modelled: log and message texts; the text of the reply that
`parse_message_list` reads, with the 16-bit index; the settings of a serial line
and the counts of system calls; moves of a port or a modem; the handle of the C
API and its wrappers in other languages, which add no state but that handle and
a flag; the examples, tests and build files. In `GsmModem` a message is the
number of segments `encode_segments` returns.

`receive_example.cpp` waits for `+CMTI` in a buffer from which `poll_response` has
already stripped every complete one, so it sees a notice only when a read ends
inside it; the hazard is listed, and the stripping is what `UrcTextStripped` and
`ChunksDoNotMatter` check.

Next: `TextReadsBack`, from a lemma for each conversion and its inverse; first that packed
septets are read as they were written, behind a header or not. Then the
text of the reply of `AT+CMGL`, with the 16-bit index, and a buffer that a caller keeps over several
calls of `poll_response` beside other threads.
