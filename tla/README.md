# A verification of H5000Logger in TLA+

H5000Logger connects to the websocket server of a B&G H5000 CPU, asks for all
data items, and writes what it receives to a CSV file (a row per timestamp) and
to a flat log (a line per observation).  This directory models the program,
checks the models with TLC and proves the main results with TLAPS for all
values of the constants.  Paths below are relative to the repository.

## 1. Inventory

| Part | State it keeps | Operations | Correct when |
|---|---|---|---|
| Observation processing, `src/h5000-logger-class.cpp` (`ProcessObservation`, `NewDate`, `NewTime`, `Clear`) | `m_observations`, `m_obsSeen`, `m_rawTimestamp`, the two writers | one observation at a time; date (id 34) and time (id 35) open files and close rows | rows are in time order, complete and none is lost; the logs are open when they are needed |
| CSV writer, `src/bg-csv-writer-class.cpp` | `m_oFile` and the files | `WriteObservations`, `NewFile` | a file starts with headings; a written row survives a kill |
| Flat writer, `src/bg-flat-writer-class.cpp` | `m_oFile` and the files | `ProcessObservation`, `NewFile` | everything up to the last time survives a kill |
| Observation, `src/bg-observation-class.cpp` | id, valid, values | from JSON, from a flat log line, to a flat log line | what is written can be read again |
| Websocket session, `src/bg-websocket-session-class.cpp` | `m_queue`, the outstanding operations | `run`, `on_resolve`, `on_connect`, `on_handshake`, `on_read`, `on_write`, `send`, `fail` | one write at a time, requests in order and all made, the program ends with the connection |
| Requests and dispatch, `src/h5000-logger-class.cpp` | none | `RequestAllValues`, `handleResponse`, `handleData`, `handleMany` (never called) | every observation received is processed |
| Data definitions (`LoadDataDefs`, `AnalyzeDataDefs`, `MakeHeaderString`) | `m_bgToCsvMap`, `m_csvColumns`, sizes of the vectors | once at the start | every column fits the vectors, headings match columns |
| Offline conversion (`ProcessFlatLog`) | the input file | line by line into `ProcessObservation` | the CSV file is the one the live logger would have written |
| Command line (`ProcessCommandLine`), `src/main.cpp` | the flags | once | only combinations the rest can handle get through |
| JSON library, `src/json/jsoncpp.cpp` (vendored) | `nodes_`, `current_`, `errors_` while a text is read; values | `CharReader::parse`, `Value`, the writers | a text is read as the value it denotes or rejected, and reading ends |
| getopt, `src/getopt` (vendored, Windows only) | | | not modelled: external to `Program` |

Interactions.  One thread runs the Boost `io_context`.  `on_handshake` calls
`RequestAllValues`, which calls `send` 18 times; `on_write` sends the rest one
completion at a time, while `on_read` passes each message to `handleResponse`
-> `handleData` -> `ProcessObservation`, which calls both writers
synchronously.  The only other actors are the CPU, the network, the operating
system that may kill the process (`run()` returns only when the connection is
gone, so that the logger is usually ended by a signal), and the stdio buffers,
which a kill loses.

Hard behaviours.  Date and time are separate observations in any order and may
repeat, jump back or be interrupted by a restart; `m_rawTimestamp == 0` means
"no time yet" and also midnight; files are opened for appending and buffered;
`fopen` may fail at any of three places; writes overlap reads and further
sends; each asynchronous step may fail; a kill tears the last line of a log,
and the next process or the offline conversion meets the torn line; a message
may be garbled, half understood or of the wrong types, and nothing in the
program catches an exception.  `PROJECT.json` lists them as hazards, each at its
line.

## 2. Modules

| Module | Models | Notes |
|---|---|---|
| `StdioFile` | the C stdio stream as the writers use it (external) | lines put, and how many of them are surely with the operating system; a kill keeps any prefix in between |
| `CsvWriter` | `BgCsvWriter` | operators on a stream; `WriteObservations` flushes, `NewFile` does not |
| `FlatWriter` | `BgFlatWriter` | operators on a stream; the flush on id 35, `flatlog.log` before the first date |
| `H5000Logger` | `ProcessObservation` and what it calls, and the life of the process | the core; instantiates both writers |
| `LoggerHistory` | adds `latest`: the last reading of each item in the current interval | a history variable only |
| `Archive` | abstract: append-only files in which some lines are precious | implemented by the CSV files and by the flat logs |
| `WebsocketSession` | `BgWebsocketSession`, `RequestAllValues`, `handleResponse`, `handleData` | handlers are atomic; the calls of `send` inside `on_handshake` are steps of their own, with every other handler held off |
| `OutboundQueue` | abstract: a queue whose messages go out in order | implemented by `WebsocketSession` |
| `WebsocketPromises` | what comments say of the session | violated; section 6 |
| `LiveLogger` | the program in live mode: `WebsocketSession` and `H5000Logger` in one process | a message is handled one observation at a time, with a kill or a failing `fopen` after any of them and restarts; implements `H5000Logger!Spec` |
| `DataDefs` | `LoadDataDefs`, `AnalyzeDataDefs`, `MakeHeaderString` | one action per definition of the file, complete or not; the line of headings in characters |
| `FlatFormat` | `BgObservation`: from JSON, `str`, from a line; lines as `fgets` cuts them | a line is a sequence of pieces (a number, a separator), so that a kill can cut between any two characters that matter |
| `FlatLog` | the text of a flat log over several processes: what is in the file and what in the stdio buffer | what can be read back of it; the history variables tell where the last process began |
| `Offline` | `ProcessFlatLog` on top of `H5000Logger` and `FlatFormat` | every line becomes an observation, valid or not; `Logged` are the observations a live logger may have written into the log |
| `Program` | `ProcessCommandLine`, `run()` up to the session or the conversion, `main` | which writers exist when `ProcessObservation` calls them |
| `JsonText` | jsoncpp: the tokens of a text, `skipCommentTokens`, `recoverFromError` | a text is a sequence of characters |
| `JsonScalars` | `decodeNumber`, `decodeDouble`, `valueToString`, `decodeString`, code points, `valueToQuotedString` | widths and the significand of a double are constants; loops are recursive functions of a position or a number; `Byte(n)` is the byte n, named by `ByteName` unless it is a character the model knows |
| `JsonValue` | `Json::Value`: types, `is*`, `as*`, `isConvertibleTo`, members, elements | a conversion is the set of its results: {} where it throws, all integers where it is undefined |
| `JsonReader` | `OurReader`: `readValue`, `readObject`, `readArray`, error recovery | one action per step of the mutually recursive functions, over the stack `nodes_` |
| `JsonWriter`, `JsonStyled` | `FastWriter`; `StyledWriter`, `StyledStreamWriter`, `BuiltStyledStreamWriter` | the last three are one code with three styles; the program calls none of them: they supply the reader with the texts of known values (`WrittenIsRead`) |
| `JsonDispatch` | `ConstructJson`, `handleResponse`, `handleData`, `BgObservation` from JSON, on a received text; the texts of the requests | composes the reader with the logger's side of it, exceptions included |
| `JsonGrammar` | abstract: what a text denotes, by a grammar over its tokens and without a reader | the properties of the JSON modules |
| `StdioFileProofs`, `H5000LoggerProofs`, `WebsocketSessionProofs`, `DataDefsProofs`, `LiveLoggerProofs`, `FlatLogProofs`, `JsonProofs`, `Program` | theorems | section 5 |
| `MCLoggerHistory`, `MCWebsocket`, `MCLive`, `MCDataDefs`, `MCFlatLog`, `MCOffline`, `MCJson` | values of the constants for TLC | |

The modules depend on each other in four groups: `H5000Logger` on the writers on
`StdioFile`; `LiveLogger` on `H5000Logger` and `WebsocketSession`; `Offline` on
`H5000Logger` and `FlatFormat`; `JsonGrammar` on `JsonDispatch` and `JsonStyled`,
those on `JsonReader`, `JsonValue`, `JsonScalars`, `JsonText`.

How the core corresponds to the code.  `obs`, `seen` and `raw` are
`m_observations`, `m_obsSeen` and `m_rawTimestamp`.  The vectors are functions
of the CSV columns; a mapped data id stands for the index of its column.  Each
path through the `switch` of `ProcessObservation` is an action: a date that
starts the files (`DateStartsFiles`) or is only stored (`DateStored`: the test
for a later date is `if (false)`), a time that starts the files
(`TimeStartsFiles`), closes a row (`TimeStartsRow`) or is only stored
(`TimeStored`), another item with a column (`ItemStored`) or without one
(`OnlyLoggedFlat`: `m_bgToCsvMap.at` throws and is caught).  Every action ends
with the flat log's line, as the function does.  `CsvOpenFails` and
`FlatOpenFails` are the same calls when `fopen` returns NULL where the code
does not test it: the process ends there.  `Exit` is the return from `run()`,
`Kill` is the process ended from outside, `Boot` the next start, with any flags.

Times are in ticks of half a second, so that the code's 1.5 seconds (`> 3`
ticks) and its casts to whole seconds (`\div 2`) are exact.  File names are the
UTC day they show.

How the JSON reader corresponds to the code.  `readValue`, `readObject` and
`readArray` call each other; the model replaces their frames by `expects`, the
point the innermost call has reached, and keeps `nodes_`, the stack of values
under construction that the code keeps as pointers into the root.  A step is
one token or one return.  An error sets `successful`, skips to the closing mark
as `recoverFromError` does (reading tokens, whose own errors it drops) and
unwinds; each call that is unwound recovers again, to its own closing mark.

## 3. Runs

| Run | What is checked | Bounds | Result |
|---|---|---|---|
| `logs` | `TypeOK`, `RowTimesIncrease`, `HeadingsFirst`, `TrackingHasFiles`, `IInv`; `RowsAreArchived`, `TimesAreArchived`: a kill loses no row, and of the flat log nothing up to the last time; `RowHoldsInterval`: a row holds the last reading of each item since the previous row and nothing older; `LatestStored`: so do the vectors; `UntimedRowBeforeHeadings`: a row without a timestamp is followed by headings | all combinations of `-c`, `-f` in each process, failing `fopen`; 2 dates, 5 times of day (midnight, within and beyond 1.5 s of each other, end of day), 2 items, one of them without a column; 6 observations (`MaxObs`), 4 where there is a flat log (`MaxFlatObs`), 2 processes | holds |
| `session` | `OneWriteInFlight`, `WriteBufferAlive`, `IInv`, `SentInOrder`, `StartSettles`, `ClosedEnds`, `AllRequested` | all 9 batches of the code, with and without `-t`, every step may fail | holds |
| `live` | `IsLogger`: the program is a logger of `H5000Logger`; `LogHoldsReceived`: every process, restarted ones included, leaves the valid observations it was sent in the flat logs, each once, in order within every file and behind what was there; a killed one all but some at the end without a time; `ProcessEnds` | `-c -f`; 1 batch, with and without `-t`; 6 kinds of messages; 4 observations, 2 processes | holds |
| `data_definitions` | `ColumnsFit`: no column outside the vectors; `ColumnsCounted`; `ReadingsUnderHeading`: an item's readings stand under its heading; `HeadingsAlign`: every heading but the last is whole | all files of up to 4 out of 8 definitions, 4 columns | holds |
| `flat_text` | `IdsReadBack`: what each process leaves reads back with the ids it wrote, in order, a torn line is recognised and spoils at most the next process's first line; `TimesReadBack`: nothing is lost up to the last time | 3 lines of 4 kinds of observations, torn anywhere, 2 processes | holds |
| `conversion` | `TornLineIgnoredOrWhole`: a torn line changes nothing, or does what the whole line would have done | all logs of up to 4 lines, all torn ones of up to 3 | holds |
| `command_line` | `IInv`, `OfflineNeverConnects`, `SessionHasWriters` | all command lines of up to 4 options, known or not | holds |
| `json_messages` | `ReadsDocument`: a text is accepted exactly if the grammar gives it a value, and read as that value; `WrittenIsRead`: what the writers and the requests say is read back; `ConvertsAsPromised`: what `isInt` and the others promise, `asInt` and the others keep; `HandledAsSent`: which observations come of a `Data` message, and where an exception ends it; `MalformedIgnored`: a rejected text leaves nothing behind; `ReadingAdvances`: the reader's variant decreases | 9200 texts, below | holds |
| `unreported_blank` | an item not reported in an interval has an empty cell | `-c`, as `logs` | violated: it is 0 once it was ever seen |
| `file_of_date` | a row is written to the file of its date | `-c`, as `logs` | violated: to the file of the first date |
| `later_time` | a later date and time closes a row | `-c`, as `logs` | violated after midnight |
| `conversion_times` | the rows of a converted log carry the times of the log | logs of 3 lines | violated: the value read is the instance |

Why the bounds are enough.

* *Core.*  Everything it tells apart is a comparison of an observation with the
  tracked time, and flags per column; starting the files takes two
  observations, each further row one more, a duplicate start by a date three.
  Six observations thus give four rows, two starts in one process and rows
  before and after a restart in one file.  CSV cells for items all behave alike,
  so two ids suffice, one with and one without a column.  The flat log has no
  rows and no comparisons, only two names and a flush: four observations give it
  both names and lines on either side of a flush in both, and `MCLoggerHistory`
  stops behaviours with a flat log there (`BoundedSpec`) so that those without
  can go on.  The theorems of section 5 remove the bounds.
* *Live.*  A date, two times and a reading open the files, start a row and close
  it, the second time and the reading in one message, so that a kill falls
  between them; the second process finds the files of the first and appends to
  them.  One batch suffices: the queue is the subject of `session`.
* *Definitions.*  Three overwrite each other in every order, the fourth raises
  the count behind them; the theorems are for any number.
* *Flat text.*  A line's pieces matter one by one, and two lines only where one
  is torn and the next continues it, the third follows.  Dates are four digits
  long: TLC's integers must hold two numbers that a tear runs together, and for
  the same reason there is one restart.  The theorems are for any number of
  lines, digits and restarts.
* *Conversion.*  Three whole lines start the files, a row and close it, and the
  torn line comes behind any two; it is torn at every character, also within
  `dampedVal`, whose number can then still be read.  The theorem is for any log.
* *Command line.*  Four options combine everything `run()` tests, in every
  order; the theorems are for any number.
* *JSON.*  The widths are scaled down, 64 bits to 8, 32 to 5, the significand
  from 53 to 6, `stackLimit` from 1000 to 4 and the right margin from 74 to 12,
  so that all relations the code tests (a last digit at the limit, an integer a
  double cannot hold, a double just outside `int`, an array one character too
  wide, one level too deep) occur with short texts.  The texts are: every
  sequence of up to four lexemes; three documents of 7 to 13 lexemes with any
  one left out, exchanged or inserted; numbers on both sides of every limit;
  every value of a set of some 800, written by each writer and read again,
  strings with every escape and code points at the ends of every UTF-8 length
  among them; the messages of up to two items under `Data`, alone or beside
  `DataInfo`, and messages under `Many`, the items
  valid, invalid, incomplete, of wrong types or out of range; and such messages
  with one character lost or exchanged.

## 4. Fairness

The core has safety properties only, and its specification assumes no fairness:
nothing makes the CPU send anything.  `WebsocketSession!FairSpec` assumes weak
fairness of the handlers that are ready (the thread runs them) and of the
completions of resolve, connect and handshake (5 s in `on_resolve`, the
suggested time limits set in `on_connect`, the resolver's own), of writes (TCP
gives up unacknowledged data), and of the failure of a read once the connection
is known to be gone.  It assumes nothing of the arrival of messages or of the
detection of a silent peer: the suggested settings give a client no idle limit,
so a connection that dies silently leaves the program waiting in `async_read`,
and the model allows that.

`LiveLogger!FairSpec` adds that the thread finishes the message it is handling
(`ProcessNext` or `Crash`) and that the session's steps wait for it; the
`for` loop of `handleData` has nothing to wait for.  `Offline!OSpec` and the JSON
modules assume none: that reading ends is shown by a variant that every step decreases
(`ReadingAdvances`: what is left of the text, then the way out of the calls,
then the depth) and by checking for deadlock everywhere but in the state where
the logger waits for the next message.

## 5. Proofs

`tlapm` checks all of them.

*The core* (`H5000LoggerProofs`).  `Invariant`: `Spec => []IInv`.  The
properties are not inductive alone.  `RowTimesIncrease` says nothing of the row
about to be written, so `IInv` relates the last line of the open CSV file to
the tracked time (`LastRowTracked`): if it is a row, a time is tracked and is
not earlier than the row's, up to the truncation to seconds.  That a NewDate
may append a row at all without disturbing the order needs that the file it
writes to ends in headings whenever no time is tracked, which is the other half
of the same conjunct.  `DateIsDay` (the stored date names a file) and
`raw # 0 => ClockMapped` tie the vectors to the names; `BuffersNone` says what
a stdio buffer can hold, without which a kill could take a row.  From `IInv`
follow `TypeCorrect`, `RowsInOrder`, `HeadingsComeFirst`, `TrackingWrites`, the
two refinements `CsvFilesAreAnArchive` and `FlatLogsAreAnArchive`.  They rest on lemmas about streams (`StdioFileProofs`),
stated once for both writers.

*The rows* (in `H5000LoggerProofs` too).  `RowsHoldInterval`: each row written holds
the last reading of every item in its interval.  A row is made from the vectors,
so the proof needs `LatestStored`, which relates `m_observations` and
`m_obsSeen` to the history variable through every store, `Clear` and restart,
together with `Invariant` for what the streams can append; a date or a time
touches no item's column, and a step appends no row but the one it makes
(`OnlyNewRow`).  `UntimedRowsEndBlocks`: a row without a time is followed by
headings at once.  Here the property is inductive together with `IInv`: NewDate
writes the headings in the same step, and a process that starts its files in a
file that ends in such a row begins with headings.

*The conversion* (in `H5000LoggerProofs` too).  `TornLinesAreHarmless`:
`TornLineIgnoredOrWhole`, for a line torn at any character.  Either all seven
numbers can still be read, because the tear is in or behind the last one, which
is not among the values the logger takes; then id and value are the whole
line's.  Or the line cannot be read, its id is -1, which has no column, and
`m_bgToCsvMap.at` throws before anything is done (`UnmappedIgnored`).
`ConversionIsLogger`: the conversion of any log implements `H5000Logger!Spec`,
because every line, torn or not, becomes an observation (`InputAssumption`); so
the theorems on the core hold of it, `ConvertedRowsInOrder` for one.

*The session* (`WebsocketSessionProofs`).  `IInv` says that sent messages,
queue and requests still to be made are together the list of requests, and that
the outstanding write is of the queue's head.  From it: `WritesOneAtATime`,
`WritesFromLiveBuffer` and the refinement `QueueIsImplemented`.

*The live program* (`LiveLoggerProofs`).  `LiveIsLogger`: the composition of
session, message handling, kills and restarts implements `H5000Logger!Spec`, so
that the theorems on the core hold of the program.  It needs that what is left
of a message are observations (`PendingObservations`), which rests on
`MessageAssumption`: the valid items the CPU sends are observations of the sets
the core is parameterised by.

`LogsHoldReceived`: `LogHoldsReceived`, of every process, the first or a restarted
one, alive, ended or killed.  The property gives each observation a place of its
own among the lines the files have gained since the process began (`began`, a
history variable, as is `received`).  A step that starts a dated log moves to
another file, so that places of later observations need not be behind the
earlier ones; the invariant `LogInv` keeps what a kill needs to know of them: all
observations whose places are not certainly on the disk, and all behind them, are
in one file (`Late`), so that cutting that file's end takes the last observations
and no others (`LinesLost`).  That these hold no time, that only the open log
grows, and that what is flushed is never shorter than what the process found,
comes of the core's invariant, of which the module takes an instance (`CoreP`):
it holds of the live program by `LiveIsLogger`.

What was proved of the parts is proved of the program they make.
`LiveFilesInOrder`: the order of rows and headings and the two refinements of the
core, through `LiveIsLogger`.  `LiveWritesOneAtATime`: `OneWriteInFlight` and
`WriteBufferAlive`.  The live program does not implement `WebsocketSession!Spec`, for a
restart begins a new session; but each of its steps is a step of a session, leaves
it alone, or begins one anew (`StepOfSession`), and each of the three keeps the
session's invariant, which `WebsocketSessionProofs` states of a step
(`StepInvariant`) for this use.

*The data definitions* (`DataDefsProofs`).  `TranslationsFit` and
`HeadingsOverReadings`, for any number of definitions.  Both need
`ColumnsCounted`: the count of columns covers every column of every complete
item met, overwritten ones included, and every id met has an entry; without the
first the final resize could drop a heading, without the second nothing could
be said of an entry when another is made.  `HeadingsInPlace`: `HeadingsAlign`,
for headings of any characters.  The line is put together by recursion over the
columns; what holds of it at each column is shown by induction, as the library's
`WellFoundedInduction` allows it for a set of numbers: a set that is not empty
has a least element (`LeastElement`, `Induction`).  `HeaderStrGrows` says that
each column's text begins with the one before, `HeaderStrEnds` that it ends in a
comma, and the two characters the code drops lie behind the last heading's start.

*The text of the flat log* (`FlatLogProofs`).  `LinesReadBack` and
`NothingLostUpToATime`, for observations with any numbers in them, any number of
lines and of restarts.  The invariant `TextInv` accounts for every line of the
last process: those flushed are in the file and the rest in the buffer, each in
its place (`Buffered`, `Filed`); the last can be torn only if the process is dead,
and a torn line in a living process's file is the one it found there, with
nothing of its own flushed yet.  Without this last part nothing could be said
about where the next flush puts its lines.  What reading yields is shown of the
format alone: a whole line its own id, however many of its numbers have a
fraction (`WholeReadBack`), and a line cut behind any character its own id or -1
(`PartReadBack`).

*Reading JSON* (`JsonProofs`), for texts of any characters and length and any
stack limit.  `ReadingComesToAnEnd`: every step of the reader gets further in the
text or, at the same place, further out of its calls (`ReadingAdvances`).  This
needs of every kind of token that it ends behind its first character and not
behind the end of the text and the one position after it (`StringEnds`,
`CommentEnds`, `NumberEnds`, `WordEnds`, together `TokenEnds`), of the loops that
skip comments and recover from errors that they end there too (`SkipCommentsEnds`,
`RecoverEnds`), and of those loops, which the model defines as functions of the
position, that there is such a function (`LoopDefined`): it is built from the end
of the text backwards (`Backwards`).  `DepthBounded`: the calls never nest deeper
than `stackLimit` and one.  The invariant `ReaderInv` says where the limit is not
yet spent: inside a container, and behind a value.  `RejectedIsIgnored`:
`MalformedIgnored`, from `DispatchInv`, which ties what the logger handles to the
end of the reading.

Then the values.  `NumbersKeepPromises`: what `isInt` and the others promise of a
number, `asInt` and the others keep, for integers and doubles of every width and
size (`TruncatedBetween`: dropping the fraction keeps a double between two
integers).  `ElementsKeepPromises`: `ConvertsAsPromised`, of the elements of
whatever text is read.  Its invariant `ValueInv` says what is on the stack while a
text is read: values; below the top containers, and what these hold are values; and
that the reader is successful until something failed, and not afterwards, so that
what is left of a failed container is never taken for a document.  What a token is
decoded into is a value if decoding it comes to a result (`ScalarsAreValues`).
`NumbersReadAsMeant`: `decodeNumber` compares with a tenth of the limit before each
digit, and so never computes a number it cannot hold; the theorem says that it
thereby gives up exactly the numbers no wide type holds, for any number of digits,
leading zeros included, and integers of any width.  `IntegersWrittenAreRead`: what
`valueToString` makes of an integer is read as that integer and of the type that
holds it, from the least negative one to the largest unsigned one.  These speak
of functions defined by recursion on a number, a length or half a number;
`RecursionDefined` shows that such functions exist, by `Upwards`, the induction on
numbers up to a bound that `Least` allows.

Then the strings.  `EscapesWrittenAreRead`: a code point that is written as `\u`
and its number, or beyond the basic plane as two surrogates, is read as that code
point, and the reader goes on right behind the escape.  `StringsWrittenAreRead`:
whatever characters a string of UTF-8 holds, `decodeString` makes of what
`valueToQuotedString` puts between the quotes the same bytes.  `IsUtf8` asks that
the bytes are those of characters one after the other, no surrogates among them:
`utf8ToCodepoint` is modelled for such strings.  The argument follows one
character: its bytes are read as its code point (`Utf8IsRead`, from `TwoBytes`,
`ThreeBytes` and `FourBytes`), what is written of it is read as those bytes again,
wherever it stands (`CharacterIsRead`), and `InnerIsRead` puts the characters
together from the last one backwards.  `QuotingDefined` and `DecodingDefined` show
that the two recursive functions of a position exist.

*The command line* (in `Program`).  `OfflineStaysOffline` and
`SessionCallsWriters`, from the invariant that `-l` brings the CSV flag and that
the writers follow the flags.

Assumptions: `ConstantsAssumption` (among others that the data definitions give the
id -1 no column; its body is `LoggerConstants`, so that
`LiveLogger` can assume the same of its instance: `LoggerAssumption`),
`HeaderAssumption` (headings are not a row), `InputAssumption`, `BatchesAssumption`,
`TestFlagsAssumption` (`LiveLogger` assumes both: `SessionAssumption`), `MessageAssumption`,
`DataDefsAssumption` (columns are within `MAX_CSV_COLUMNS`),
`MaxOptionsAssumption`; for JSON `WidthAssumption` and `NarrowAssumption` (one
integer type has twice the range of another), `ByteAssumption` (different bytes
have different names), `StackAssumption`, and
`RoundingAssumption` (integers of 32 bits have a double of their own, the bounds
of those of 64 are rounded to at most their successor); TLC evaluates them in the runs.

Only model-checked: the liveness properties (`StartSettles`, `ClosedEnds`,
`AllRequested`, `ProcessEnds`), which are out of the prover's reach; `ReadsDocument`, `WrittenIsRead` and `HandledAsSent`,
which compare whole values with what is computed by recursion over all texts, an
induction over data; and the counterexamples of section 6.

## 6. Where the code and its documents disagree

Four runs of `PROJECT.json` show the disagreements that cost data or put it in
the wrong place, each with the document quoted under `findings`:

* `later_time`: no row is written from midnight until the time of day of the
  last row comes round again.
* `file_of_date`: a new UTC date is said to trigger new output files
  (`src/src/bg-csv-writer-class.cpp:66-67`), but the test for it is `if (false)`,
  under a todo for the rollover (`src/src/h5000-logger-class.cpp:302-306`): a later
  date's rows go to the first date's file.
* `unreported_blank`: an item that is no longer reported is written as 0.
* `conversion_times`: a flat log is read in another order of fields than it is
  written, so that every value is the instance and every time of a converted log
  is 0.

Further ones, each with a configuration that TLC finds violated
(`tlc -config <cfg> <module>`):

| Configuration | Module | Said | Done |
|---|---|---|---|
| `MCRowHasOldTimestamp` | `MCLoggerHistory` | a row is written with the old timestamp (comment of `ProcessObservation`) | it carries the new one |
| `MCFailureIsReported` | `MCWebsocket` | `run()` returns an error code | `EXIT_SUCCESS` after every failure |
| `MCManyIsHandled` | `MCWebsocket` | the messages inside `Many` are handled one by one | they are taken for observations and dropped |
| `MCHeadingsIntact` | `MCDataDefs` | the trailing comma of the headings is dropped | and the character before it |
| `MCGarbledCaptured` | `MCFlatLog` | garbled lines are captured | not the line a restarted process appends to a torn one |
| `MCConversionHasWriters` | `Program` | `-f` is a live option | `-l -f` is accepted and calls a flat writer that was never made |

What the model of jsoncpp records as it is, for the reader who compares it with
JSON: a lone `-` is the integer 0; leading zeros are accepted; a second
surrogate is not checked to be one; text behind the document is ignored; a
comment is not allowed between a name and its colon, and `[/**/]` is rejected;
behind a comment that follows a member, any token is taken for the comma (the
grammar leaves out such texts: `PlainComments`); `StyledWriter` and
`StyledStreamWriter` cut a name at a NUL; `asInt64` of the double 2^63 passes
its test and is undefined, while `isInt64` refuses it.

## 7. Not modelled, and why

* The formatting of numbers in CSV cells, console output, option arguments, the
  path of the executable: no property is about them.
* Of jsoncpp what the program does not use: the deprecated `Reader`, settings of
  the builders other than the defaults, comments as they are kept and written
  out, error texts and locations, iterators, `Path`, the editing of values.
* getopt: vendored for one platform, external to `Program`.  Boost: external,
  modelled by its completions.
* A column outside 1 .. `MAX_CSV_COLUMNS` in the data definitions
  (`DataDefsAssumption`): the code would write outside its vectors; nor
  definitions without the headings `Utc` and `Boat`, which `H5000Logger` takes
  for granted.
* Lines longer than the 200 characters `ProcessFlatLog` reads at a time: `str`
  makes none.
* A computer that is switched off: `fflush` hands a line to the operating system
  and nothing calls `fsync`, so that a power-off may lose what was flushed.  `Kill`
  is a signal, which loses stdio's buffers and nothing else.
* Dates before 1970 in `MakeFileName` (a date of 0 in a converted log): the code's
  difference is negative and is converted to another type before `gmtime`; the
  model subtracts, and only the name of a file depends on it.
* Doubles that overflow: `decodeDouble` rejects a text whose number the stream
  cannot hold; the doubles of `JsonScalars` have a significand of limited length
  but any size.  Nor the comparison of JSON values, which the program never does.
* Memory: `ConstructJson` never deletes its `CharReader`.
* Data races do not exist: there is one thread.
* `on_close`, `handleMany`: never called.  What the code does with a `Many`
  message is modelled; what it should do is said only of its violation,
  `MCManyIsHandled`, and no property that holds takes it for handled.

## 8. Plan

1. (done) `StdioFile`, `CsvWriter`, `FlatWriter`, `H5000Logger`, `LoggerHistory`
   with proofs; `WebsocketSession`, `OutboundQueue` with proofs.
2. (done) `LiveLogger`: session and core composed; it implements
   `H5000Logger!Spec`, with proof.
3. (done) `DataDefs`, with proofs.
4. (done) `FlatFormat`, `FlatLog`, `Offline`.
5. (done) `Program`, with proofs.
6. (done) The JSON library as the program uses it, from the text of a message to
   its observations.
7. (done) `LogHoldsReceived`, `HeadingsAlign`, `UntimedRowBeforeHeadings` and the
   text of the flat log as theorems; of the JSON reader that it ends, how deep it
   goes and that a rejected text is ignored; that the conversion of a log is a
   logger.
8. (done) The properties of session and core as theorems of the live program; of
   the JSON library that numbers are read as meant, integers and strings written
   are read back, and conversions keep what the tests promise of every value read.
9. Open: the JSON reader as an implementation of the grammar for all texts.
