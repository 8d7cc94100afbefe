# WEB-AGENT in TLA+

WEB-AGENT (`src/WEB-AGENT/src`, C++17) is a daemon that polls a server for
tasks, runs each as a shell command in a thread of its own and posts its result
and its files back. This directory models its concurrency, its protocol and the
rules it runs tasks by, checks them with TLC and proves with TLAPS, for every
value of the constants, the safety of its concurrent parts and what its pure
parts compute.

## Inventory

| Component | State | Operations | Hard part |
|---|---|---|---|
| Polling loop (`main.cpp`) | `workers` (futures), `active_sessions` and its mutex, `current_interval` | probe, register, prune, check the limit, fetch, claim, start a thread, back off, sleep | claims are made by one thread and dropped by another; exceptions at every point |
| Worker thread (`main.cpp:206-224`) | the task it captured, `SessionGuard` | execute, send the result or the error, release | it ends in steps: session released, future ready, future collected |
| API client (`api_client.cpp`) | `access_code_`, `client_mutex_`, one `httplib::Client` | `probe_server`, `register_agent`, `fetch_task`, `send_result` | shared by all threads; lost, contradictory and partial answers |
| HTTP client (`httplib.h`, vendored) | the provider of a multipart body, the connection | `Post` with files | the body is built while it is sent; a closed TLS connection makes it repeat the request |
| Instruction parser (`task_executor.cpp:51-147, 329-484`) | none | `parse_task_instruction` | two levels of fields, aliases, defaults filled in between |
| Path rules (`task_executor.cpp:149-213`) | the file system | working directory, result files | `..`, absolute paths, links, relative configuration |
| Task executor (`task_executor.cpp:252-327, 486-543`) | logs in `task_directory`, files in `result_directory` | run the command, wait for files, collect, read the logs | directories shared by all commands, clocks, deadlines, stale files |
| Logger (`logger.cpp`) | the file, standard output, a mutex | `info`, `error`, `debug` | order of lines over two sinks |
| Configuration (`config.cpp`) | none after start | `load_config` | defaults, clamps, an environment override |
| JSON (`json.cpp`) | none | `parse`, `dump` | a reader written by hand, escapes |
| Command line, deployment | | | not modelled but for systemd's restart, see below |

How they interact: main calls the client with the instruction parser behind it,
claims the session and starts a worker; the worker calls the executor and then
the client, which has the HTTP client read the files while it sends them;
everybody calls the logger. Shared state is the registry (its
mutex), the client (its mutex), the logger (its mutex) and, without a mutex, the
two directories.

What makes each correct: a session never runs twice at once, the limit holds,
claims are exact and are released, polling goes on and backs off as documented,
a run is reported once, requests are serialised and carry a code (loop, workers,
client); replies and codes mean what the documents say (client); a result arrives
with all of its files or is not said to be delivered (HTTP client); the command
given is run, inside the result directory, and its files are looked for where it
wrote them (parser, paths); a message is the output of its own command, files
are neither lost nor foreign (executor); both sinks agree (logger); the numbers of
the configuration are those the loop can work with, and what one program writes
as JSON the other reads (configuration, JSON).

`PROJECT.json` lists the hazards at their lines, with the properties that watch
over them.

## Modules

| Module | What it is |
|---|---|
| `TaskService` | abstract specification: sessions that are started, reported and released, at most `MaxParallel` at once, one result per run |
| `Agent` | the process: main, the workers, the shared client, crashes (EXTENDS `ApiProtocol`) |
| `AgentProperties` | its properties and the refinement mapping to `TaskService` |
| `AgentProofs` | theorems about `Agent`, and that it implements `TaskService` |
| `MCAgent` | constants of `Agent` for TLC |
| `Exchange` | abstract specification: what one call of `send_result` does, as far as `Agent` relies on it |
| `ResultDelivery` | `send_result` with the files, down to the blocks the HTTP client sends; implements `Exchange` |
| `ResultDeliveryProofs` | theorems about `ResultDelivery` |
| `TaskExecutor`, `MCTaskExecutor` | `execute_task` run by several workers over the shared directories |
| `TaskExecutorProofs` | theorems about `TaskExecutor` |
| `Logger`, `MCLogger`, `LoggerProofs` | the logger |
| `ApiProtocol` | pure: how `ApiClient` reads the answers of the server |
| `ResultCodes` | pure: wait status to exit code to the `result_code` field |
| `PathRules` | pure: canonical paths, working directories, result files |
| `Instruction` | pure: `parse_task_instruction` (EXTENDS `PathRules`) |
| `CommandLine` | pure: quoting, and the line `std::system` is given |
| `TaskOutput` | pure: the message, from the two logs |
| `Config` | pure: `load_config` |
| `JsonText` | pure: the strings and numbers of JSON |
| `Json` | pure: the reader and writer of whole JSON documents, token by token |
| `Shell`, `JsonMeaning` | external: how `/bin/sh` takes a line apart, what a string, a number or a document of JSON means to another program; they do not follow the code |
| `Calls` | one call per behaviour of the pure parts, and the properties of what comes out |
| `MCCalls` | the inputs of `Calls` for TLC |
| `Induction` | induction and folds over numbers and sequences, for the proofs |
| `TextProofs` | theorems about `CommandLine`, `TaskOutput` and `JsonText` |
| `DocumentProofs` | theorems about `Json`, against `JsonMeaning` |
| `CallsProofs` | theorems about `Calls`, with `Config`, `PathRules`, `Instruction`, `ResultCodes` |

### Agent

One action is the code between two points where threads can interleave.

| Action | Code |
|---|---|
| `ProbeServer`, `Register` | `main.cpp:154-164` with `probe_server`, `register_agent` |
| `PruneCompleted` | `prune_completed` and the check of the limit |
| `RethrowFromWorker`, `Unwind` | `get()` of a future that threw, outside the inner `try`; the locals of main are destroyed, the registry before the futures |
| `StartPoll`, `EndPoll` | `post_json` under `client_mutex_`; the answer is read by `ApiProtocol!FetchTask`; "no task", an error, a task |
| `ClaimSession` | the section under `active_sessions_mutex` |
| `SpawnWorker`, `SpawnFails` | `std::async` |
| `Execute` | `execute_task` returns or throws; sessions in `Hanging` never end |
| `AcquireClient`, `SendReturns`, `SendThrows` | `send_result`, for the result and for the error of the handler |
| `ReleaseSession`, `ReleaseDestroyed` | `~SessionGuard`, and the same when main has destroyed what it refers to (undefined: the thread goes on, takes the process down, or takes no further step) |
| `EndThread` | the future becomes ready |
| `Crash`, `Restart` | the process dies at any point; systemd starts it again (`deploy/systemd/web-agent.service`) |

The server is not constrained: it answers any request with any member of
`Replies`, names any session at any time, and a request that got no answer may
or may not have reached it, that of a process that dies included (`LastWords`).
`received` is what the server has of the last run of a session, as a set: the
HTTP client may bring the same result twice. Whether a request arrives is decided
when it ends; one that arrives later counts as arrived. `failures` and `crashes` are history. `SendMayThrow` and
`SpawnMayFail` switch on the failures that need exhausted resources (allocation
failures, no thread to be had), so that a run can tell what holds with and
without them.

The interval is an int of `IntMax`, and its product by two overflows as on the
processors the agent is built for (`Wrapped`; to C++ it is undefined). `load_config`
has no upper limit for `backoff_max_sec`: above half of `INT_MAX` the product can become
negative, is then the lower of the two, and is zero from the next error on, so that the
loop polls without a pause. `BackoffFollowsErrors` states the condition (`DoublingFits`);
the run `agent_faults` goes through an overflow.

`Restart` is systemd's: `Restart=on-failure` covers every way out of the loop (a signal,
or exit code 1), and with `RestartSec=5` the default limit of five starts in ten seconds
is never met. launchd's `KeepAlive` does the same; the Windows service is installed
without a recovery action, so that there a dead agent stays dead and what rests on
`Restart` does not hold.

`wpc` separates what the code separates: a session is dropped from the registry
(`releasing` to `returning`) before its future is ready (`done`), and that before
main has collected it (`idle`). In between the session can run again in another
slot.

### ResultDelivery

| Action | Code |
|---|---|
| `Connect`, `ConnectFails` | `send_` up to the request (`httplib.h:12124-12184`) |
| `SendFields`, `SendBlock`, `SendFresh`, `EndPart`, `FinishBody` | one call each of the multipart provider (`13402-13444`) with the file provider behind it (`1023-1049`), out of the loop of `write_content_chunked` |
| `CancelWrite`, `WriteFails` | a file that cannot be opened; a connection that is broken or not writable |
| `EndWrite` (in the last three) | `process_request` after the body: `is_peer_closed`, and the retry in `send` |
| `ReadAnswer`, `ReadFails` | the rest of `process_request`, and what `send_result` makes of it |
| `HandleBody`, `GiveAnswer`, `CloseConnection` | the server: it accepts only what it has handled, may refuse, close or stay silent at any time |
| `Vanish`, `Rewrite`, `Append` | other commands in the shared directory |

Lengths are counted in pieces (a block, a header, the end of a part), so that
the arithmetic of `offset - cur_start` stays that of the code, the wrap-around
included: a difference below zero is a seek that fails. `size` is the file without
what was appended to it after it was collected; `fresh` says that there is such text
and that the provider has not read it. It can be read and appended again for ever,
so that a file that grows as it is sent has no bound.

`Exchange` is the interface between the two levels: the result reaches the server
at most twice, perhaps after the client has given up, and "delivered" is said only
of a result the server has. `SendReturns`, `SendThrows` and `LastWords` of `Agent`
are built on exactly this.

### TaskExecutor

A job is one call of `execute_task`. `Begin` reads `started_at` and refuses what
is refused; `StartCommand`, `ReachLast`, `PrintFirst`, `PrintLast`,
`WriteResult` and `ExitCommand` are the shell and the command, which the code
only starts and waits for; `AwaitFiles`, `Collect`, `EndPause`, `EndSleep` are
`wait_for_generated_files`; `Finish` makes the result. A session has one job at
a time, which is `NoConcurrentSession` of `Agent`. Text is the set of (job, part
of its command) that printed it; a file is the time of its last change. A process
the command leaves in the background goes on writing files and, with `PrintLate`,
into the log of its session, whoever opened it since.

The shell need not get to the redirections: it can fail in the `cd`, at a syntax error or
at a log that cannot be opened, be missing altogether (`std::system` returns -1), or leave
a list before its last command. `ExitCommand` is enabled from each of these places, with
any of `ExitCodes`; the logs are then those of an earlier run. `reached` is how far the
shell got.

`LogName` is `safe_session_name`, which is not injective: `a/b` and `a_b` have one log.
`rivals` are the jobs of the same log that worked while a job did. `MessageIsOwnOutput`
says what is left of the promise that a message is the output of its command: no text of
another log at all; once the logs were opened, none of a job that had ended before, but
for what it left behind; and, without rivals, all that was redirected. To the letter
(`EveryOutputIsReturned`) it does not hold.

The clock of the file system is coarser than the agent's (`Grain`, `Stamped`): a file
written within one step of the start of its task can look older than it is, and is then
not collected (`task_executor.cpp:295`), against `technical_spec.md:32`.
`NewFilesAreCollected` says that what is written later is.

### Pure modules

In `ApiProtocol` a reply is a record of what the code branches on. In
`Instruction` a level of the answer is a record with one field for all aliases
of a name, except `program`, `file` and `path`, whose order matters because `file`
is a result file too. In `PathRules` a location is a sequence of names and links
are a function on locations, so that canonical paths are computed and not
assumed. In `Config` a field is the set of its usable values, none or one; a url is
its scheme, host and port. In `CommandLine` and `TaskOutput` a text is a sequence of
characters, and a word the code writes itself is one character. In `JsonText` strings
and numbers are read and written character by character.

`Json` reads a text of tokens. `parse_value`, `parse_array` and `parse_object` call one
another; the model keeps the calls that are under way in a sequence, each with its
result so far, and takes the text token by token. `at` is the place in the code the
next token is read at:

| `at` | Code (`json.cpp`) |
|---|---|
| `value` | `parse_value` (24-56), also as an element that follows a comma |
| `first` | after the opening bracket (59-63, 85-89): the end, or the first element or member |
| `key`, `colon` | 68-72 |
| `next` | after an element or a member (74-78, 96-100) |
| `end` | `parse_value` has returned to `parse` (16-19) |
| `throws` | an exception |

`Close` returns from a call to the one below. `Dump` is the writer for all values of
`Depth` levels: the texts of the values within are those of one level less.

`Calls` makes one call in each behaviour and compares what comes out with something
that does not follow the code: the words a shell splits a line into (`Shell`), the
messages a JSON string encodes, the texts that are numbers and the values a document
stands for (`JsonMeaning`), where a canonical path leads, what `Agent` assumes of a
configuration. `StartsOnlyFromInstruction` asks nothing of `status` but that it is not
`WAIT`, because the code does not: an answer with both identity fields, no error code
and the status `ERROR`, which `docs/api.md` does not have, starts a task. The values of a document are found from the bottom up: `PartsOf` collects
all parts of the text that are a value, or a container but for its closing bracket,
wherever they are, in rounds and without a stack; the text stands for the values of the
parts that are all of it. `GivenCommandIsRun`,
`GivenWorkdirIsUsed` and `NamedFilesAreAwaited` are about both levels of an answer,
the numbered names `file1`, `file2`, ... included.

## Runs

| Run | Expect | Shows |
|---|---|---|
| `calls` | pass | all pure parts: no answer is taken for what it is not, no failure is a success; commands and files stay inside and the command is the one given; every accepted configuration fits the loop; arguments arrive through two shells as they were given; messages are whole or marked; JSON is read and written right |
| `calls_run` | violation | a complete `RUN` whose `msg` contains the letters «нет» is taken for "no task" |
| `calls_relative` | violation | with the shipped `"result_directory": "./results"` commands run in `results/results` |
| `calls_unicode` | violation | `\uXXXX` is read as `?` |
| `agent` | pass | the safety of the agent, that it implements `TaskService` (which holds that no session runs twice at once and the limit), and its progress while one command hangs |
| `agent_faults` | pass | what survives failing threads and exceptions out of the workers: sessions are exclusive and the limit is kept, in a process whose interval overflows as well |
| `agent_spawn` | violation | a failed `std::async` leaves its session refused for ever |
| `delivery` | pass | bodies are whole or cancelled, every delivery ends if the files do not grow for ever, and it implements `Exchange` |
| `delivery_retry` | violation | a repeated request leaves out the files that were begun, and is taken for a delivery |
| `executor` | pass | two jobs of every kind: whose text a message has, which files are waited for and collected |
| `executor_list` | violation | only the last command of a list is redirected, so that a message is not what the command printed |
| `logger` | pass | both sinks and their order |

A violation is where a document or a test of the repository says what the code
does not do; `findings` in `PROJECT.json` quotes both.

### Bounds

- `agent`: three sessions, one of which hangs, three slots, a limit of two (a slot
  more than the limit shows that the limit, not the number of slots, bounds the
  threads), one crash, intervals from 1 to 3 with a maximum that is no power of
  two and is half of `IntMax`, and as many errors in a row as it takes to reach it (`MaxFailures`). No
  symmetry, because of the liveness properties.
- `agent_faults`: the same with symmetry; `access_code` is empty in the
  configuration and `register_on_startup` off, the case in which the code must
  register all the same. `IntMax` is the maximum of the interval, so that the first
  error overflows and the second brings the interval to zero.
- `delivery`: two files of up to two blocks, over TLS, the server and the disk
  doing anything between any two pieces: a file can be whole, begun or not begun
  when the connection closes, and the second attempt has one before and one after
  the place it goes on from. A block more and a file more add no new position.
  `MaxBlocks` bounds what a file has when it is written anew, not what is appended.
- `executor`: two jobs of one session, of two with one log (`a/b` and `a_b`) or of two
  with a log each, so that they overlap or follow each other; two files, times up to 3
  and waits up to 2, so that a job can miss, meet and outlive its deadline; a file
  system clock of two steps to one of the agent's (`Grain = 2`), so that a job starts
  on a step of it and between two; a shell that succeeds and one that is not there
  (`ExitCodes` 0 and -1, the other codes are dealt with in `calls`).
- `calls` has no bound in time: every behaviour is one call. Inputs are all those
  of a small size: JSON texts of five tokens and documents of up to thirteen with
  one token replaced, numbers of five characters, strings of three, arguments of
  two characters out of those that mean something to a shell, outputs one longer
  than the buffer, all values a field of the configuration is compared with. The
  file system has a link to a directory and one to a file, both outside, and a
  file of the same name inside, outside and in a subdirectory.
- `logger`: three threads, four lines, three seconds of a clock that does not go
  back (a local clock that does is outside what the code can help).

`executor`, `delivery` and `logger` switch the deadlock check off because there all
jobs are done, the delivery is over or all lines are written; the runs of one call
end after it. The agent never stops: its runs check for deadlock.

### Fairness

In `Agent`: weak fairness of main and of every worker. Threads that can run are run
by the operating system, and every request ends: `request_timeout_sec` bounds
each wait for the network, and `DeliveryEnds` of `ResultDelivery` is that there are
finitely many of them. (It does not bound the request: a server that takes a byte
just before each timeout can hold it for as long as the body is long; and a file that
grows for ever is sent for ever.) Weak fairness of `Restart`: systemd's restart policy, see above. Strong
fairness of `AcquireClient`: a mutex promises no order, but main holds it for one
request at a time and sleeps at least a second in between (the run has no overflow of
the interval), so that a waiting
worker finds it free again and again. No fairness for the commands in
`Hanging`, for `Crash`, or for any particular answer of the server.

In `ResultDelivery`: weak fairness of the client's steps, none of the server or the
disk. `DeliveryEnds` has a premise, `FilesSettle`: at some time the appending stops.
Without it TLC finds the delivery that never ends, of a file that is appended to before
each call of the provider; `client_mutex_` is then held for good.

`TaskExecutor` has no liveness properties: its clock stops at `MaxTime`, and its
waiting loop is bounded by the deadline it checks, which `WaitsForEveryFile` and
the run's depth cover.

## Theorems

All for any constants that satisfy the named assumptions of the modules.

- `AgentProofs`: `TypeInv`, `SessionInv` and `PoolInv` are inductive.
  `NoConcurrentSession` alone is not: that a started session runs nowhere else
  follows from its not being in `active`, so the invariant adds that every live
  session is claimed (`LiveIsClaimed`), that a session claimed and not started yet
  runs nowhere, and what main's `task` is in each of its states. For the limit the
  invariant counts slots in use, not live threads: `Cardinality(Pool)` is at most
  `MaxParallel` and smaller wherever main is between the check and the start of
  the thread. `RegistryIsExact` and `OnlyRunningSessionsAreRefused` assume
  `~SpawnMayFail`, which is exactly what the run `agent_spawn` refutes them
  without. `TypeCorrect` has the interval an int, at most its maximum, whatever overflows
  (`WrappedIsInt`). `OneRequestInFlight` and `RequestsCarryCode` complete the set.
  The refinement is in the same module: `OutcomeIsUnique` and `AgentImplementsService`
  (initial states map to initial states, every step to a step of `TaskService` or a
  stutter), both under `~SendMayThrow`: an exception after the server got a result makes
  main's handler send a second one. The invariant `ReportInv` says that a thread that has
  not posted yet has nothing on the server.
- `ResultDeliveryProofs`, for any number of files of any size. `FirstBody`: by itself
  "the body is whole when it is finished" says nothing of the way there; the
  invariant says that the parts before the current one are whole, those after it
  untouched, and that of the current one exactly `offset - cur_start` blocks are
  sent, unless somebody wrote the file. `HeadersComeFirst`: a part under way has its
  header in the attempt that sends its blocks, or stands at a position below zero,
  where nothing is sent. `DeliveryImplementsExchange`: by the invariant that what is
  accepted was handled.
- `TaskExecutorProofs`, for any jobs, sessions, files and times. `MessagesAreOwn`, for
  any naming of the logs: the invariant says whose text a log can have at each stage of
  a job that works on it (what was there, until the shell opens it; the job's own and
  its rivals' from then on), and that `rivals` misses no job at work; it rests on
  `Exclusive`, one job per session. `ListsAreAwaited` needs finite sets of files;
  `NewFilesAreFound` is for any `Grain`, and with `Grain = 1`, stamps as fine as the
  clock, it is about every file the command wrote.
- `LoggerProofs`: both sinks agree and timestamps ascend, for any number of threads.
- `CallsProofs`: each property of `Calls`, for any set of inputs, links, names and
  sizes. The invariant `CallsInv` says that a call that has returned has returned
  what its operation computes from its input; it holds by the shape of `Calls`, and
  the work is in the theorems about the operations it hands over to:
  - `CanonicalIsStable`: the path that comes out of `weakly_canonical` has no link and
    no `..` left, so that checking it again, as the `cd` and the opening of the file
    do, leads to the same place (`PathsAreInside`). It needs that a link leads to a
    location without links (`LinksAssumption`), which is what the operating system
    makes of a chain of links.
  - `ConfigFits`: every configuration that is accepted satisfies what `Agent` assumes.
  - `FieldSign`, `SuccessIsCleanExit`, and the statuses of `std::system` taken apart.
- `TextProofs`, for texts of any length and content:
  - `EscapedIsOneWord`, `InnerCommandIsWords`, `ShellCommandIsWords`: a shell reads a
    quoted text as one word, the inner command as the words the server named, and
    the outer one as `/bin/sh -lc` and the inner command. An argument must not be
    empty, since `json_arguments` leaves those out.
  - `MessageIsBounded`, `ShortOutputIsMessage`, `MessageShowsOutput`: a message is never
    empty, is bounded, holds the output as far as the buffer goes, the errors after
    their header, and a mark where either was cut.
  - `NumbersAreRead`, `PlainStringIsRead`, `WrittenStringIsUnderstood`: a number is read
    to its end, a string without `\u` as what it stands for, and a string the agent
    writes has exactly one reading, the one meant. The last goes by what a reader
    has understood so far: after each escaped character it holds the message up to
    there with nothing pending, and no beginning of one code is another code.
- `DocumentProofs`, for documents of any length, values of any depth and any strings:
  - `DocumentsAreRead`: `Parse(text) = ValuesOf(Strip(text))` for every text. The reader
    returns a value exactly for the texts that are JSON, the one value they stand for,
    and throws for all others. One direction: `PartsOf` has the smallest set of parts
    that is closed under `Larger` (`PartsAreTheSmallest`), and the parts over which the
    reader gets from a place where a value is expected, with the same calls under way, to
    the return of their value are closed under it (`PartsAreRead`); so what is a value
    is read as one, and `ValuesOf` has one element at most. The other: after each token,
    the calls under way are containers that are begun one within the other, each of them
    a part of the chart (`TokenIsAfter`); so what is read is a value (`ReadsOnlyParts`).
    White space is a step that changes nothing (`StripStep`, `SpaceIsSkipped`).
  - `DumpMeansTheValue`: what `dump` writes stands for the value and no other, and is
    read back as it: by induction on the depth, and within a container on its elements
    or on the keys in the order of the map (`NextIsListed`, `ArrayIsRead`,
    `ObjectIsRead`). The keys are as many as one likes; that no string is a bracket, a
    comma, a colon or the scalar is `KeyOrderAssumption`, which is what the quotes do.
- `Induction`: the theorems of the library take a predicate as a parameter, which no
  prover here instantiates. Here the set of numbers, or texts, that have a property is
  shown to be closed, from the well-foundedness of the natural numbers; a loop is a
  recursive function, which `LoopExists` and `LoopIsUnique` unfold (`LexLineLoops`,
  `ReadTextLoops`, `CanonicalLoops`, ...).
- `BackoffIsExact` (`AgentProofs`) is proved in this way: after n errors the interval
  is `PollInterval * 2^n`, cut at the maximum, if twice the maximum is an int. It assumes
  that the model counts errors far enough to reach the maximum (`CountReachesMax`), as
  the run does.

Only model-checked: liveness (`PollingNeverStops`, `ClaimsAreReleased`,
`EveryRunIsReported`, `DeliveryEnds`), which the prover cannot do under fairness. Every
safety property of a passing run is a theorem.
`DocumentedRunIsTaken`, `WritesWhereItLooks` and `ReadsEveryEscape` do not hold: runs
refute them.

## Not modelled

- Of `httplib.h`, which is vendored and more than nine tenths of the source: all but
  the way of one multipart POST through the client. Servers, redirects, proxies,
  compression, authentication, websockets and the other methods are not used by
  the agent; the parsing of headers, DNS and TLS itself are taken as "an answer or
  none".
- `Agent` and `TaskExecutor` are not composed into one state machine: the product is
  beyond TLC, and what one takes of the other is a single property,
  `NoConcurrentSession`, which is proved for `Agent` and is the guard of `Begin` in
  `TaskExecutor`. `Agent` and `ResultDelivery` are tied by `Exchange`.
- The command line: read once, in one thread, before anything else exists.
- Of `json.cpp`, the value of a number (digits beyond an int, six digits in `dump`) and
  the typed accessors.
- The Windows branches; permissions of files and directories; bytes that are no
  UTF-8.
- Deployment, except that systemd starts a dead agent again.
- What a thread does after undefined behaviour, beyond the outcomes of
  `ReleaseDestroyed` and of the overflow of the interval.

## Where it could go on

The plan of modules is done. What would add to it: the value of numbers that serve
as session names (`json.cpp:247`); the time a slow server can hold `client_mutex_`,
which needs a model of time in `Agent`; the poll's own retry
(`httplib.h:12115`), which can ask for two tasks where the agent hears of one, once
it is known what the server does with an unanswered task.
