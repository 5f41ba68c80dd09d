# Specifications of chromium-mcp

chromium-mcp puts an MCP (Model Context Protocol) server into the Chromium
browser process. AI clients connect to it over a Unix socket, mostly through a
daemon that starts and watches Chromium; every tool call becomes a chain of
commands of the Chrome DevTools Protocol (CDP) to one tab. This directory holds
TLA+ models of the program, from the start of the processes to the commands a
tool sends, TLC instances that check them, and TLAPS proofs that their safety
properties hold for instances of any size. Paths below are relative to
the repository root.

Contents: [The system](#the-system), [Modules](#modules),
[Runs](#runs), [Bounds](#bounds), [Fairness](#fairness), [Proofs](#proofs),
[Abstractions](#abstractions), [Where the code differs from its
documents](#where-the-code-differs-from-its-documents), [Not
modelled](#not-modelled), [Plan](#plan).

## The system

    AI client -- stdio --> client script -----------+   or, without the daemon,
                            | Unix socket           |
                            v                       +-> launcher -- stdio
                 daemon  (chromium-mcp-daemon.py)         |    AI client
                  |  ChromiumManager: start, watch,       |
                  |    restart, stop                      |
                  |  handle_client / _bridge:             |
                  |    one handler, two relays a client   |
                  | Unix socket                           | Unix socket
                  v                                       v
    browser process   McpTransportSocket --tasks--> McpServer --> tools
                      (reader threads)              (UI thread)     |
                                                       McpSession per tab
                                                            |  CDP
                                                       DevToolsAgentHost

| Component | State | Operations | What is hard | What makes it correct |
|---|---|---|---|---|
| CDP session, `src/mcp_session.cc` | `is_attached_`, `next_cdp_id_`, `pending_callbacks_`, `event_handlers_`, `captured_requests_` | `Attach`, `Detach`, destructor, `SendCdpCommand`, answers and events of the agent, `AgentHostClosed` | a callback may send the next command while `Detach()` or `AgentHostClosed()` walks, and is about to clear, the map it goes into | a call waits on one callback until its one result; an answer meets the callback of its own command; nothing waits for an answer that cannot come |
| MCP server, `src/mcp_server.cc` | `client_states_` (handshake, assigned tab), `sessions_`, `tools_`, `current_inline_client_id_` | `initialize`, `initialized`, `tools/list`, `tools/call`, disconnection | tabs close and open between any two messages; calls are answered much later; several clients share the browser | one response per request, which comes unless a tool holds the call for an event of its own; a call runs on its caller's tab; clients do not change each other's state; sessions know when their tab is gone |
| tabs tool, `src/tools/tab_tool.cc` | that of the tab strip | list, new, close, select | the server reassigns the client around the call; a blank tab is reused | a client's calls run on the tab it opened or selected |
| tool registry, `src/mcp_tool_registry.cc` | the registered tools | dispatch | - | a call reaches its tool or fails at once |
| Unix socket transport, `src/mcp_transport_socket.cc` | `clients_`, a reader thread per client, `O_NONBLOCK` of the sockets, posted tasks | accept, read, `Send`, removal, report of a disconnection | reader threads against the UI thread; a write fails while the reader is in `read()`; threads are joined on the UI thread | a disconnection is reported once and last; whoever is registered is read from |
| Chromium manager, `class ChromiumManager` in `scripts/chromium-mcp-daemon.py` | `_state`, `_proc`; the threads | `wait_ready`, `_do_start`, `_monitor_loop`, `shutdown` | four kinds of threads that sleep between their critical sections | one start at a time; the ready process is watched; a crash leads to a restart; no client hangs |
| client bridge, `scripts/chromium-mcp-client.py` | `stdin_buf`, the two ends | `connect_chromium_socket`, `proxy_loop` | a line comes in pieces; the socket ends first | what goes in comes out, in order, framed |
| daemon client proxy, `handle_client`, `_bridge`, `_connect_chromium_with_retry` in the daemon | per client: `buf`, `chromium_initialized`, `cr_sock`, two relay threads; for all: `tools_cache.json` | answers from the cache, handshake with Chromium, hand-over to the relays | Chromium dies at any point of it; one `recv` returns more than one message; two threads block on two sockets | Chromium hears one handshake and then the client's messages; a request is answered, or the client sees the end; nothing stays open |
| life of the daemon, `main`, `cleanup` there | the path of its socket | start, serve, end by signal | a second daemon starts on the same path | a client that starts a daemon can reach it |
| launcher proxy, `scripts/chromium-mcp-launcher.py` | the lock file, the browser it launched | find an instance, launch, wait for its socket, relay | the file is read, judged, removed and written in steps, by several launchers | launchers share a browser that lives; every start ends |
| stdio transport, `src/mcp_transport_stdio.cc` | `running_`, the reader thread | start, stop, read, send | end of input against `Stop()` | end of input is reported once |
| instance lock, `src/mcp_launcher.cc` | the lock file, its flock | acquire, release, `IsInstanceRunning` | nothing in the program creates one | - |
| wait tool, `src/tools/wait_tool.cc` | one timer of each kind, shared by all clients; per wait: completed, open requests | wait for a time, a condition in the page, a load, a network at rest | waits replace and stop each other's timers and handlers; time-out, event and late answers race | a wait is answered once, leaves nothing behind, and ends |
| capturing tools, `src/tools/{network,console,performance}_tool.cc` (the first is compiled, not registered) | a flag, settings and a buffer each, shared by all clients; handlers registered with sessions; the trace's `stop_trace_callback_` | start, stop, clear; answers and events | calls of several clients on several tabs overlap; answers come late or fail; a stop goes to the session of the moment | the buffer belongs to the last start and its filters; a stop leaves nothing behind; a trace can be stopped and started again |
| domain tools, `src/tools/{network_intercept,coverage}_tool.cc`, `network_capture` in `src/mcp_server.cc` | flags and rules for all tabs; domains switched on in one | enable, disable, rules, requests by hand; start and stop of coverage and capture | events come before the answer to the command that switches them on; a chain fails halfway | a request that is paused goes on; what is off is off, what is on is complete |
| input tools, `src/tools/{mouse,keyboard,drag,hover,scroll,select_option,file_upload}_tool.cc` | the keyboard's `char_delay_timer_` | chains of input events | chains of several clients in one tab; a failure in the middle | what was pressed comes up; a text is typed in order, once |
| element queries, `src/tools/{element,element_info,find}_tool.cc` | a counter per call | chain to the nodes, then one command a part, all at once | parts fail one by one, in any order | the last part ends the call |
| emulation tool, `src/tools/emulation_tool.cc` | - | lists of commands, one after the other | what is set outlives the call | a reset takes all of it back |
| page, dialog and browser data tools | - | one or two commands, or a call of a browser service | - | see [Not modelled](#not-modelled) |

Everything in the browser process except the reader threads runs on the UI
thread, so a handler is atomic between two of its asynchronous calls; what
interleaves are tasks, callbacks and the user's actions on tabs. The daemon has
real threads and one lock.

`PROJECT.json` lists the hazards found in reading, each at its line, with the
properties that would notice it going wrong.

## Modules

| Module | Models | Kind |
|---|---|---|
| `CdpCalls` | what a CDP session promises to tool calls | abstract specification |
| `McpSession` | `McpSession` with the chains of commands of tool calls | detailed, implements `CdpCalls` |
| `McpServer` | `McpServer`, registry dispatch, the tabs tool, the browser's tabs | component |
| `ClientStreams` | what a transport promises to the server | abstract specification |
| `SocketTransport` | `McpTransportSocket` with its reader threads and the peers | detailed, implements `ClientStreams` |
| `ChromiumManager` | the daemon's `ChromiumManager` with its threads and the processes | component |
| `WaitTool` | the wait tool, its timers, and the event handlers of the sessions | component |
| `ToolCalls` | calls of tools, their commands and the sessions they use | base of the capturing and the domain tools |
| `NetworkCapture`, `ConsoleCapture`, `TraceTool` | the network capture, console and (traces of the) performance tools | components |
| `CaptureTools` | these three over the same sessions | composition |
| `DomainCalls` | domains of the agent that tools switch on and off | base of the next three, over `ToolCalls` |
| `InterceptTool`, `CoverageTool`, `SessionCapture` | the tools network_intercept and coverage, the server's network_capture with what a session notes of requests | components |
| `DomainTools` | these three over the same sessions | composition |
| `ToolChains` | calls that are chains of commands, without events | base of the next three |
| `InputTools`, `ElementQueries`, `EmulationTool` | the seven input tools; element, element_info, find; emulation | components |
| `ChainTools` | these eleven tools over the same sessions | composition |
| `StdioClient` | the bridge process between an MCP client's pipes and the daemon | component |
| `DaemonProxy` | the daemon's handlers and relays, with `StdioClient` in front and Chromium behind | component and composition |
| `BrowserSocket` | browser processes and the path of their socket | base of the next two |
| `LauncherLock`, `DaemonStart` | launchers with their lock file; clients that look for a daemon, and the daemons they start | components |
| `StartUp` | launchers, clients, daemons and browsers on one machine | composition |
| `SocketTransportProofs`, `WaitToolProofs`, `CaptureToolsProofs`, `DomainToolsProofs`, `ChainToolsProofs`, `DaemonProxyProofs` | - | theorems about the modules they are named after |
| `BrowserProofs`, `ProcessProofs` | - | theorems about `McpSession` and `McpServer`; about `ChromiumManager` and `StartUp` |
| `MC...` | - | instances for TLC |

`McpServer` sees a session the way `CdpCalls` describes it (an accepted command is
answered once, at the latest when the session closes; a closed session refuses
at once), and `McpSession` is shown to implement exactly that. Its clients connect,
send and leave the way `ClientStreams` describes it, which `SocketTransport`
implements. The tool modules
(`ToolCalls`, `ToolChains`) use sessions in the same way. `DaemonProxy` takes
from `ChromiumManager` that `wait_ready` comes back with one of its two answers
(`WaitReadyEnds`), and `DaemonStart` that a serving daemon may launch a browser.
This is how the levels fit together without multiplying their states.

### McpSession

`pending` is `pending_callbacks_`; it maps a command id to the call whose
callback waits, or to `NoCall` for commands whose answers are dropped (the mouse
events of the click tool). A tool call is a chain of commands of any length up
to `MaxSteps`; `RunCallback` is what any callback of a tool does: send the next
command, or deliver the result, perhaps after commands it does not wait for.

`Detach()` and `AgentHostClosed()` walk the map and run each callback with an
error. As these callbacks can re-enter `SendCdpCommand`, the walk is a sequence
of steps: `sweep` is the kind of walk and the id it is at, `SweepNext` is one
iteration (`std::map` is ordered and its iterators survive insertion, so the
walk reaches commands sent during it), `SweepEnd` is `clear()` and what
follows. While a walk is on, nothing else runs. `AgentHostClosed` sets
`is_attached_` to false *before* its walk and `Detach()` *after* it, which is
why in the second case callbacks do register new commands.

`outstanding` is the agent's side: commands it has not answered. Detaching or
closing empties it.

### McpServer

One action per handler; a handler's variants (which tool, which outcome) are
actions of their own: `HandleInitialize`, `HandleInitialized`,
`HandleSimpleRequest` (everything answered on the spot), `CallSessionTool`
(inline tools through `current_inline_client_id_`, registry tools through the
session handed to them), `CallSessionToolNoWindow`, `CallLocalTool`, `TabsNew`,
`TabsNewOrSelectFails`, `TabsSelect`, `TabsClose`. `CloseTab`, `OpenTab`, `ActivateTab` and
`NavigateTab` are the user. A tab is its WebContents *address*, because that is
the key of `sessions_`; a new tab may get the address of a closed one, except
one that a client's `assigned_tab` still holds (a `raw_ptr`, which keeps freed
memory from being reused). `sessions[t]` is `none`, `attached`, `dead` (closed
by its agent host, still in the map) or `wild` (made from the address of a tab
that is gone; shown never to happen).

`running` holds the calls that are at work, `replies` counts the responses of every
request. `waits` says what a running call waits for. Most tools answer when their
last command is answered: `no`, and `CdpAnswer` ends the call. The *waiting tools*
also wait for something that is not a command: wait for its timers, keyboard for
the delay between two characters, performance `stopTrace` for `tracingComplete`,
history for `HistoryService`, element_info for the part of a property it does not
know. Their calls are at a `command` or `parked` without one; `Parks` and `Resumes` go
from one to the other, and `OwnEvent` ends them, perhaps never, as a later call may
have replaced the timer or the callback. Such a call may also begin on a dead
session (`StartOnTab`: `DispatchToolCall` refuses only a missing one), and outlives the
closing of its tab (`EndCalls`: what is parked is not reached, and a wait goes on
after a poll that failed).

### SocketTransport

The reader of a client is between frames (`loop`), in a blocking `read()`
(`blocked`), or has returned (`done`). The UI thread's `ui` says what it is in
the middle of: nothing, `OnAcceptReady` after the reader has been started but
before the client is registered, `Send()` between clients, in the `write()`
loop, or joining the readers of clients whose write failed. `tasks` are the
tasks posted to the UI thread, in order. `nonblock` is the flag of the socket,
which is shared by both directions: `Send()` sets it around its write, and the
reader that calls `read()` in this window gets `EAGAIN`.

`ClientStreams` is what remains of this for the server: a client is `present` from
the moment its reader runs, `ended` when the reader has returned, and `told` when
`HandleClientDisconnect` has run; `arriving` counts its messages that are read
and not handled. Under the mapping (`Abstract`) writes, `accept()`, removals
and joins are stutters.

### ChromiumManager

A step of a thread goes from one release of the lock, or one sleep, to the
next. `starter` are the threads of `_do_start`, `monitor` the threads of
`_monitor_loop`, one for each process that became ready, `main` the main thread
through `shutdown()` to the daemon's exit (all other threads are daemon threads
and end with it). The processes are external: they come up, stop answering,
exit or crash when they like.

### WaitTool

`timer` and `handler` say *whose* closure a timer or an event handler holds: the
tool has one timer of each kind for all clients, a session one handler for each
event, and a closure that is replaced takes the callback of its wait with it.
`Execute` and the four `WaitFor...` actions start a wait (text, textGone and
selector are one kind, `condition`); `TimeOver`, `OnPollTimer`, `OnTimeout` and
`NetworkIsIdle` are timers that fire, at any time while they run;
`OnEvaluateResponse` is the page's answer to a poll, which may come after the
end of the wait; `LoadEventFired`, `RequestWillBeSent`, `LoadingFinished` and
`LoadingFailed` are events, which reach a handler only while the session is
attached. `alone` is history: no other wait was on at the same time. So are `seen`,
the requests a wait has heard begin and not end, and `strayed`: its count was lowered
by the end of a request it had not heard begin, for the handlers do not look at ids.

In `McpServer` a wait is a call of a waiting tool, which says nothing of when it ends.

### CaptureTools

`NetworkCapture` models the class `NetworkCaptureTool`, which is compiled
(`src/BUILD.gn:53`) but not registered: `RegisterBuiltinTools`
(`src/mcp_server.cc:792-852`) has inline tools of its names, which `SessionCapture`
models. What is checked and proved of `NetworkCapture` is true of the class, and of the
program from the day the class is registered; no hazard in `PROJECT.json` rests on it.

There is one object of each tool for all clients and tabs: one flag, one buffer,
one set of settings (`is_capturing`, `captured_requests`, `filter` in
`NetworkCapture`; `console_on`, `messages`, `safe_mode` in `ConsoleCapture`;
`is_tracing`, `trace_chunks`, `stop_trace_callback` in `TraceTool`). Handlers,
on the other hand, are registered with the session a call happens to be for
(`netHandler`, `conHandler`, `traceHandler`). `ToolCalls` has the part they
share: `sent` holds the commands that are not answered yet, `Answered` answers
one of them, in any order and with any outcome the state of the agent allows.
When a tab closes, all its commands fail before anything else happens
(`Runnable`), which is the walk of `AgentHostClosed`, or the immediate refusal
by a session that is not attached.

The external side: `netEnabled` (the Network domain of a tab), `page` (which
requests are being loaded), `recording` and `completing` (the tab whose trace
the agent records, and tabs whose `tracingComplete` is still to come; the agent
records one trace at a time). `WaitToolTakesOver` is what a networkIdle wait
does to the capture's handlers. `sinceStart` and `orderly` are history: requests
seen since the last successful start; whether the calls of a tool came one after
the other on one open tab.

### DomainTools

Over `ToolCalls` comes `on`: what is switched on in each tab. The agent carries
out the commands of a tab in the order they are sent, so a command changes `on`
when it is sent, and its answer, which says how that went, is read later; events
may come in between. That distance is what these tools are about.

`InterceptTool`: `is_intercepting` and `rules` are for all clients and tabs,
`fetchHandler` are the sessions the tool is registered with. `paused` holds the
requests that wait for a command; `OnRequestPaused` either serves the request, by
the first rule that matches, or leaves it there. `CoverageTool`: two flags and
four chains; every stop ends in an error, which is what the code returns (see
below). `SessionCapture`: `captured_requests` is what `McpSession` notes of every
request while the Network domain is on, which is all that network_capture does:
no record, one whose `status_code` is zero, or one with the code of the response;
`promised` are the requests that began after a client was told that its capture
runs.

### ChainTools

`at` is the command whose answer a call waits for, so a tool is a table of what
follows what (`HoverChain`, `DragSequence`, ...), with a counter for the moves of
a drag. `Responses` are the answers a command may get: an error, or, while the
tab lives, what the agent returns for it. `excuse` is history: a command failed,
or the element is not there, or the arguments were wrong.

`HasJsException` is modelled as written: it looks for the exception inside
`result`, where it never is, so select_option reports success for a script that threw.

`InputTools` keeps what is `pressed` and `typed` in each tab; typing with a delay
waits in `char_delay_timer`, whose closure the next delayed typing replaces.
`ElementQueries` sends the commands for all parts at once and counts answers in
`pending`. `EmulationTool` works off a list, whatever the answers.

### DaemonProxy and StdioClient

Messages are records that say who made them (the client or the daemon's own
handshake), frames are units of a socket's stream, and a `recv` may return several
of them. `handler` is where `handle_client` is: reading the next message, waiting
for Chromium, in its handshake with it (`init`, `tools`, `save`), forwarding, or
waiting for the relays (`bridge`). `current` is the request at hand, `buf` what has
been read beyond it. `crSock` is `reset` when Chromium's end is gone and the
daemon does not know it yet. The relays are the set `relay`; each closes both
sockets when it ends, which ends the other.

A handshake fails when Chromium is gone, and also when the file of the cache cannot be
opened or written (`HandshakeFails`): the exception ends the handler.

In `StdioClient` a line reaches stdin whole or in two pieces; `OnSelectTimeout`
is the second that may pass in between. The process `Returns` at an end of file, or
ends at any time (`ProcessEnds`): by a signal, or because stdout cannot be written.

### StartUp

`launcher` and `client` are program counters: every access to the lock file, to a
process or to a socket is a step, because other launchers, clients and daemons
take theirs in between. `lock` is the file, which may be absent, or opened and not
written yet; `writes` are the launchers whose open handle still is the file at
the path. `proxyPath` is what the path of the daemon's socket names, `listening`
the daemons whose socket accepts. `disturbed` is history: two starts overlapped,
one timed out, something a later start relies on has ended, or a daemon has
launched a browser.

## Runs

| Run | Question | Result |
|---|---|---|
| `session` | Do calls keep one callback and get one result, whatever re-enters the session during its walks? Does every answer find its callback? Is every call answered when the tab goes? Is this an implementation of `CdpCalls`? | holds |
| `server` | One response per request, sessions attached only to open tabs, calls on the caller's tab, no influence of one client on another's state, with tabs that come and go. Is every request answered, also when its tab closes, unless a waiting tool holds it? | holds |
| `socket` | Is a disconnection the last thing the server hears of a client, and heard once? Is a registered client read from? Are sockets blocking again after every write? If peers read, is every client that leaves reported, also if a failed write removed it first, and do the joins on the UI thread end? Is this an implementation of `ClientStreams`? | holds |
| `manager` | One start at a time; `STARTING` is owned by a thread; `READY` has a process and one monitor that polls it; crashes lead to restarts; `wait_ready` ends | holds |
| `wait` | Is a wait answered at most once, whatever timers, events and answers of two waits race? Does a finished wait leave a timer or a handler behind? Does the idle time run only while no request is counted, and none that the wait has heard begin is open, but where a stray one was counted off? Does a wait end that no other disturbed, also when its tab closes? | holds |
| `capture` | While starts and stops of several clients on two tabs overlap: does the buffer of the network tool (the class) hold only requests of the last start, and only those its filter lets through? Is nothing collected between captures? Is a capture that is said to run fed? Does one client that waits for its answers leave nothing behind, and get its trace? | holds |
| `chains` | Does every button and key come up again between calls, though the chains of two clients interleave? Is a text typed once and in order? Does the last of several parallel answers, and no other, end a call? Does a reset leave nothing emulated? Does every call end, also when its tab closes? | holds |
| `chains_selector` | Does a call fail only for a reason? | violated |
| `domains` | One client that waits for its answers, whatever the pages do and the other tabs left: does a paused request go on, do the coverage flags say what is tracked, does every request in a capture have a record, with a code if and only if it has a response and has not failed? | holds |
| `domains_hang` | Does every paused request go on? | violated |
| `proxy` | Does Chromium hear the handshake and then what the client sent, nothing lost, doubled or overtaken? Does the client get answers to its own requests only, each once? Is a request answered, or the connection closed, though Chromium dies? Does anything stay open when the client is gone? | holds |
| `startup` | Do programs that start one after the other share a browser and a daemon? Does every start end in a connection or an exit, whatever it meets? | holds |

What the passing runs say beyond their properties' names:

- `CallConserved`: a command sent by a callback from within `Detach()`'s walk
  is reached by this walk, so the `clear()` that follows swallows nothing. The
  code relies on `std::map` here; a snapshot of the map, or an unordered map,
  would lose calls (the mutant of this property).
- `AwaitedBySomeone`: the branch of `HandleCdpResponse` for unknown ids is never
  taken, as detaching makes the agent forget its commands.
- `NothingAwaitedInVain`: between two tasks a detached session holds no
  callback; this is what the raw `McpSession*` in the callbacks relies on.
- `SessionsFollowTabs`: `sessions_` is never asked to make a session from a
  stale address, though `assigned_tab` may be stale. It rests on entries never
  being removed and on the quarantine of `raw_ptr`.
- `DisconnectIsLast`: `McpServer` would take a late message of a removed client
  for a new client. The order of the task queue and the single place where a
  reader posts the end exclude it.
- `ImplementsClientStreams`: of all that the transport does to `clients_` while
  writes fail and readers return, nothing reaches the server but messages and then
  one end. A join that reported the removed client as well would break it (the
  mutant), and so would a message task behind the task that reports the end.
- `StatesHaveThreads`: the state is tested and set in one critical section, and
  nothing else sets `STARTING`. Old monitor threads may sleep through their
  cooldown while a new process is ready; they do not count as, or disturb, its
  monitor.
- `CollectsWhatWasAsked`: a restart replaces the filters at once, but the
  handlers of the first start deliver until `Network.enable` is answered. That
  both `HandleStart` and `OnNetworkEnabled` clear the buffer is what keeps it
  consistent. Handlers may also stay registered on a tab after a stop on another
  one; the test of `is_capturing_` in `OnCdpEvent` makes up for it.
- `OrderlyStopsCleanUp`, `OrderlyStopIsAwaited`, `OrderlyRequestsGoOn` and
  `OrderlyTracking` are limited to one client at a time on an open tab, because
  the code promises no more: see the list of differences.
- `NothingLeftPressed` excludes tabs in which a command has failed: after a move
  that fails, nobody releases the button.
- `CallsEnd` names the two calls of the eleven tools that are never answered
  (`TimerTaken`, `Uncounted`); apart from them closing the tab ends every call.
- `EveryRequestAnswered` leaves out the calls that are `parked` in a waiting tool: the
  code gives no guarantee for those (see the list of differences). When they end is
  a question to `UndisturbedWaitEnds`, `OrderlyStopIsAwaited` and `CallsEnd`.
- `IdleTimerMeansQuiet`: a request that was open before the wait and ends during it is
  counted off all the same, and may hide one that is open. The property names this
  exception (`strayed`); without it, it is refuted (`IdleMeansNoneOpen`).
- `CaptureIsComplete` relies on the order of commands and events in the agent,
  and on `OnNetworkRequestWillBeSent` replacing an older record of the id. A failed
  request and one without a response have equal records: `status_code` is zero in
  both (`src/mcp_session.h:42`, `src/mcp_session.cc:422`).
- `CaptureIsFed` does not say that the handlers are complete: a networkIdle wait on the
  tab leaves the capture that of `responseReceived` only (`WaitToolTakesOver`).
- `HandshakeThenStream`: what `_recv_message` read beyond the request stays in
  `buf` and goes out before the relay reads from the socket.
- `OneAfterTheOtherShare` is all the two scripts give: nothing excludes starts
  that overlap (see `LivingInstanceIsUsed` and `ServingIsReachable` below).

Every property of a passing run is paired in `PROJECT.json` with a bug variant
of the code (`..._NotErased`, `..._Snapshot`, `..._NoReturn` and so on, each
beside the definition it changes) that makes TLC report a violation of it.

Deadlock checking is off in all runs: all of these systems may come to rest (all
requests sent, all calls made, all peers gone, the daemon ended).

The modules state more than the runs check, in two groups. Type invariants
(`TypeOK` of each composition and of the older components) hold in the runs'
configurations, but say little; two runs (`session`, `server`) list theirs. All
of them are proved. The properties named
under [differences](#where-the-code-differs-from-its-documents) with a module are
refuted by TLC when they are added to the configuration of its run.

## Bounds

| Constant | Value | Why it is enough |
|---|---|---|
| `Calls`, `MaxSteps` (session) | 3, 2 | calls interact through the map and its order only: one callback that has run, one that runs and re-enters, one still to come. The proofs hold for all values |
| `Clients`, `Tabs`, `MaxRequests` (server) | 2, 2, 3 and 2 | a tab that stays and one that closes and comes back at its address; for one client initialize, a call and a tabs call, or two calls at the same time; for the other initialize and a call of any kind that crosses them |
| `Clients`, `MaxFrames`, `Capacity` (socket) | 2, 1, 1 | one client that fails and one that is healthy, each with a message and its end still to be read; a buffer of one message is full after the first |
| `Callers`, `Starters`, `MaxLaunches`, `MAX_RETRY` (manager) | 1, 2, 3, 2 | a process that crashes, its successor that crashes too, so that two monitors are in their cooldown, and a third. A client that waits may trigger a start again and again, so one behaves as several do; a second start thread would be a violation and has a slot to show itself. |
| `Waits`, `Sessions`, `Requests`, `MaxPending`, `MaxEvaluations` (wait) | 2, 2, 2, 2, 2 | a wait and the one that disturbs it, on the same or on another tab; a poll answered late and one after it; a request that ends while another is open, whether the wait heard it begin or not |
| `Calls`, `Sessions`, `Requests` (capture) | 3, 2, 1 | a capture, a call that disturbs it, and one that finds what is left; a tab of its own for the disturbance. Requests do not interact; a filter lets the one through or not |
| `Calls`, `Sessions`, `Steps`, `Text`, `Parts`, `Chosen` (chains) | 2, 2, 2, 2 characters, 2, 1 | calls interact through one tab, or the keyboard's timer, so two of them do; a drag with a repeated move; a character that is a key and one that is not; a part that fails and one that is still to come; a setting to take back (the reset sends the commands of all eight) |
| `Calls`, `Sessions`, `Requests`, `RuleIds`, `MaxTools` (domains) | 3, 2, 1, 2, 1 | start, stop and start again, or a call on another tab in between; two rules that both match. `MaxTools` is a state constraint of `MCDomainTools`: the calls of one behaviour are of one tool, any of the three. They share the closing of tabs and nothing else, so a second tool adds interleavings without meaning |
| `Clients`, `MaxLines`, `Split`, `MaxDeaths` (proxy) | 1, 2, the second, 1 | a request at hand and one behind it, whole or torn; Chromium dies once and may come back. Handlers of different clients share `tools_cache.json` only, which `OthersSave` changes at any time in their stead |
| `Launchers`, `Clients`, `MaxBrowsers`, `MaxDaemons`, `MaxStarts` (startup) | 2, 2, 2, 2, 2 | two starts of any kinds, each with a browser or daemon of its own if it comes to that: the bound where sharing can fail |

The bounds are in guards, apart from `MaxTools`. After `MaxLaunches` or
`MaxBrowsers` processes `Popen` fails, which it may do at any time anyway; after
`MaxDaemons` the start of a daemon has no effect, as if it died at once.

## Fairness

- `McpSession`: the walk goes on (`SweepNext`, `SweepEnd`): the UI thread does
  not stop in the middle of a function. Nothing obliges the agent to answer.
- `CaptureTools`, `DomainTools`: none; only safety is checked.
- `ChainTools`: the renderer of an open tab answers in the end, as for `McpServer`
  below, and `char_delay_timer_` fires while it runs. The answers after the
  closing of a tab are the walk of `AgentHostClosed`.
- `McpServer`: `CdpAnswer \/ Parks`, i.e. the renderer of an open tab answers every
  command in the end, which ends the call or, in a waiting tool, parks it. Nothing is
  assumed of how parked calls go on. The server sets no time-out of its own, so a
  hung renderer does leave a call unanswered until its tab is closed. Closing needs no
  fairness: the step that closes the tab fails the commands.
- `SocketTransport`: readers run, the UI thread goes on with what it began, and
  tasks posted to it are run although there are always more messages to send
  (strong fairness: the message loop takes tasks in order). `PeersRead`, which
  only `LeavingIsReported` needs, is an assumption on the clients and *not* guaranteed:
  without it `SendDoesNotBlock` fails (see the
  [differences](#where-the-code-differs-from-its-documents)).
- `WaitTool`: `time_wait_timer_` and `timeout_timer_` fire unless they are
  stopped. Pages owe nothing.
- `ChromiumManager`: each thread of the daemon that can run runs; all waits in
  the code have time-outs. Processes owe nothing.
- `DaemonProxy`: the bridge processes and the daemon's threads run, a `recv` that
  can return does, and a Chromium that lives answers. It does not owe its life:
  after `ChromiumDies` it need not come back.
- `StartUp`: launchers, clients and daemons run until they are connected or exit;
  each of their loops has a deadline. A browser need not bind its socket.

## Proofs

Eight modules prove, with TLAPS, that the safety properties of the passing runs
hold for every value of the constants: any number of clients, calls, tabs,
messages and processes, where a run has two or three. Each specification has one
inductive invariant (`IInv`; `SessionIInv`, `ManagerIInv` and `StartIInv` where a
module has two), which TLC checked on the run's instance before it was
proved. The proof that a step preserves it has a lemma for each action, or for
each tool, and the theorems follow from it by temporal reasoning; action
properties follow from it and the step.

| Module | Theorem | Proves |
|---|---|---|
| `BrowserProofs`, of `McpSession` | `SessionTypes` | `SessionSpec => []SessionTypeOK` |
| | `SessionConservesCalls` | `[]CallConserved` |
| | `SessionRoutesAnswers` | `[]AwaitedBySomeone` |
| | `SessionAwaitsNothingInVain` | `[]NothingAwaitedInVain` |
| | `SessionImplementsCdpCalls` | `ImplementsCdpCalls` (refinement) |
| | `SessionClosedHasAnswered` | `[]ClosedHasAnswered`, for `ClosedAnswersAll` |
| `BrowserProofs`, of `McpServer` | `ServerTypeOK` | `Spec => []TypeOK` |
| | `ServerAnswersOnce` | `[]OneResponsePerRequest` |
| | `ServerSessionsFollowTabs` | `[]SessionsFollowTabs` |
| | `ServerCallsOnOwnTab` | `CallsRunOnOwnTab` (steps) |
| | `ServerClientsIndependent` | `ClientsAreIndependent` (steps) |
| | `ServerUnansweredIsPending` | `[]UnansweredIsPending`, for `EveryRequestAnswered` |
| `SocketTransportProofs` | `SocketTypeOK` | `Spec => []TypeOK` |
| | `SocketDisconnectIsLast` | `[]DisconnectIsLast` |
| | `SocketRegisteredAreServed` | `[]RegisteredAreServed` |
| | `SocketImplementsClientStreams` | `ImplementsClientStreams` (refinement) |
| | `SocketJoinsCanEnd` | `[]JoinsCanEnd`, for `LeavingIsReported` |
| `ProcessProofs`, of `ChromiumManager` | `ManagerTypes` | `ManagerSpec => []ManagerTypeOK` |
| | `ManagerStatesHaveThreads` | `[]StatesHaveThreads` |
| `ProcessProofs`, of `StartUp` | `StartUpTypes` | `Spec => []StartTypes` |
| | `StartedInTurnShare` | `[]OneAfterTheOtherShare` |
| `WaitToolProofs` | `WaitTypeOK` | `Spec => []TypeOK` |
| | `WaitCompletedIsOver` | `[]CompletedIsOver` |
| | `WaitIdleTimerMeansQuiet` | `[]IdleTimerMeansQuiet` |
| | `WaitUndisturbedHasDeadline` | `[]UndisturbedHasDeadline`, for `UndisturbedWaitEnds` |
| `CaptureToolsProofs` | `CaptureToolsTypeOK` | `Spec => []TypeOK` |
| | `CaptureCollectsWhatWasAsked` | `[]CollectsWhatWasAsked` |
| | `CaptureStaysFed` | `[]CaptureIsFed` |
| | `CaptureStopsCleanUp` | `[]OrderlyStopsCleanUp` |
| | `CaptureStopIsAwaited` | `[]OrderlyStopIsAwaited` |
| `DomainToolsProofs` | `DomainToolsTypeOK` | `Spec => []TypeOK` |
| | `CoverageTracksInOrder` | `[]OrderlyTracking` |
| | `SessionCaptureIsComplete` | `[]CaptureIsComplete` |
| | `InterceptOrderlyRequestsGoOn` | `OrderlyRequestsGoOn` (steps) |
| `ChainToolsProofs` | `ChainTypes` | `Spec => []TypeOK` |
| | `EverythingReleased` | `[]NothingLeftPressed` |
| | `EveryCharacterOnce` | `[]TypedOnceInOrder` |
| | `PartsAnswered` | `[]LastPartAnswers` |
| | `OnlyElementInfoHangs` | an ended or hanging count, for `CallsEnd` |
| | `ResetsCompletely` | `[]ResetLeavesNothing` |
| `DaemonProxyProofs` | `ProxyTypeOK` | `Spec => []TypeOK` |
| | `ProxyHandshakeThenStream` | `[]HandshakeThenStream` |
| | `ProxyOwnAnswersOnce` | `[]OwnAnswersOnce` |
| | `ProxyForgetsNone` | `[]NoneForgotten`, for `AnsweredOrClosed` |
| | `ProxyLeavesNoneOpen` | `[]NoneLeftOpen`, for `GoneReleasesChromium` |

Where the table says "for", the right-hand side is a liveness property that TLC
checks, and the theorem proves what it rests on in any state: that whoever waits has
somebody, or something, that can end the wait. What is left to TLC is that
under fairness this then happens.

### Assumptions

The named assumptions on the constants, and nothing else. They say that a bound is
a number (`ServerAssumption`, `TransportAssumption`, `ManagerAssumption`,
`StartsAssumption`, `DaemonsAssumption`, `LinesAssumption`, `DeathsAssumption`,
`WaitAssumption`, `SessionAssumption`, `InputAssumption`, `RuleAssumption`), positive where the
code could not run otherwise (a chain has a step, a socket's buffer holds a
message, a start is tried once), and that the values which stand for "nothing" are
no call, tab or session (`NoCall`, `NoTab`, `NoWait`, `NoSession`, `Over`;
`ToolAssumption`, `ChainAssumption`, `TraceAssumption`, `OverAssumption`).
`RequestAssumption` keeps calls and requests apart, as the answer to a command
names either; `QueryAssumption` says that a query asks for finitely many parts, as
it counts them; `EmulationAssumption` that the settings a call may choose are among
those of the tool. TLC evaluates all of them in the runs.

### The inductive invariants

**`BrowserProofs`**, the session: `SessionTypeOK`, the three safety properties, and `IdleWalk` (without a
walk there is no position in it). The properties need each other: that an answer
meets the right callback (`AwaitedBySomeone`) is what lets `HandleCdpResponse`
preserve `CallConserved`; that ids in use are below `next_cdp_id` (in `SessionTypeOK`)
makes the callback of a new command fresh, and lie ahead of the walk; that
nothing is awaited in vain is what `Attach` needs to find an empty map.
`NothingAwaitedInVain` itself survives a walk because the walk ends with an
empty map. The refinement maps `open` to `is_attached`, `waiting` to the calls with
a live callback (registered and not yet passed by the walk) and `answered` to the
calls with a result. A step of a chain in the middle of a call is a stutter, as
is the beginning and the end of a walk except for the change of `is_attached`;
there is one lemma for each kind of step. `ClosedIsOff` (a closed agent has no
attached session) turns these facts into `ClosedHasAnswered`.

**`BrowserProofs`**, the server: the checked properties are nearly inductive together. `QuietClients`
adds that the state of a client that left is gone from `client_states_`, and that
calls run for ready clients or for clients that left: without it a new connection
could find an old assignment. `ActiveIsOpen` adds that a window with tabs has an
active one, so that "no tab found" means that no tab is open, which is what keeps
`sessions_` from being asked for a session of a tab that is gone.

**`SocketTransportProofs`**: that the end is reported last rests on who can still post.
`EndIsLast` orders the queue, `EndedIsDone` says that a reader whose end is posted
or reported has returned, `NoReaderYet` that a connection has no reader before it
is accepted, so there is one per client. `Served` counts the client that
`OnAcceptReady` has in hand, whose reader may have ended before the client is
registered; `UIInHand` ties what the UI thread is in the middle of to `clients_` and
to the one socket that is not blocking. The refinement counts the messages of a
client in the task queue; running the task at its head takes one of them away, and
`EndIsLast` says that none is left when the end is told. `FailedAreClosed` adds
that the readers the UI thread joins have a peer that is gone.

**`ProcessProofs`**, the manager: `StatesHaveThreads` in its two halves (`StartingIsOwned`,
`ReadyIsWatched`). That a process becomes ready with *one* monitor needs that while
nothing runs or a start is on its way no monitor polls (`NobodyWatches`); those left
of earlier processes are in their cooldown. This also holds when `shutdown()` comes
in between, because the process it terminates stays the current one
(`TerminatesCurrent`).

**`ProcessProofs`**, the start: nothing is claimed once `disturbed` holds, so the
invariant is `Calm` until then. At most one program is on its way (`OneAtATime`); the
browser there is, if any, starts or serves and has the path of its socket
(`OneBrowser`); the lock file names it, except while the launcher that starts it is
between `open` and its end (`LaunchersKnow`, which says for each program counter of a
launcher what it knows); the same for the daemon, its path and the clients
(`OneDaemon`, `ClientsKnow`). A step that would leave `Calm` sets `disturbed`, which
is what the lemmas on steps of processes show. TLC also checked this invariant with
three starts.

**`WaitToolProofs`**: a completion stops timers and removes handlers of its own kind of
wait, not of its own wait, so that nothing holds a completed wait is a fact about
kinds: a timer or handler only holds waits of the kind that sets it (`TimersFit`,
`HandlersFit`). `HeldByWaiting` follows from this, whatever waits replace each other;
`Counted` relates results to `completed`, which each callback tests first. For the idle
timer, `OneClosure` says that the three network handlers of a session are replaced
together, `IdleIsServed` that the wait the timer serves counts nothing and has its
handlers, and `SeenIsCounted` that a wait that was not led astray counts at least the
requests it has heard begin: a cardinality, which is why ids are in the model. For the
deadline of a wait that was never disturbed, `AloneIsOnly` adds that no other wait is
on: the closures that stop its timer are its own, and late answers to the polls of
completed waits change nothing.

**`CaptureToolsProofs`**: a shared part (`IShared`: a command belongs to a call of one
tool on one tab, a call sends one command, an orderly tool is used on one open tab
by one call at a time) and a part for each tool. A step of a tool is, for the two
others, a step that leaves what they see alone (`Frame`), so each part is proved for
its own steps only. For the trace `TraceOrderly` says where an orderly client is: a
start is under way (`Starting`), a stop is (`Stopping`, before or after the answer to
`Tracing.end`), or neither (`Resting`), and what flag, callback, handlers and agent
look like in each.

**`DomainToolsProofs`**: the same layout. What is new is the distance between the moment
the agent carries out a command and the moment its answer is read. `InterceptOrderly`
and `CoverageOrderly` bridge it: what is switched on in a tab is either known to the
tool's flag or its answer is under way (`Begun`). `StartersListen` and
`PromisesListen` say that the Network domain of a tab is on from the answer to a start
until another call for this tab, which makes `CaptureIsComplete` inductive.

**`ChainToolsProofs`**: a part for each question (`Held`, `Presses`; `TimerOn`,
`TypedHere`, `TypedSoFar`; `PartsCounted`; `Resets`) over types and `Arrived`, and a
step of one kind of tool leaves the parts of the others alone (`OutsideInput`,
`OutsideQueries`, `OutsideEmulation`). `Held` says of each button and key that is
down who will release it: a call in the same tab, at a command from which the
release follows, or one whose command has failed. `Typed` says how many characters
a call has typed at each of its commands, in terms of what its timer has left;
that they are in order is said of the set of their positions, so that no sequence
is filtered in the proof. `ResetAt` says of a running reset that the settings before
the one at hand are taken back, if it was alone and nothing failed.

**`DaemonProxyProofs`**: `CInv(c)` is about one client, and a step of another leaves it
alone. The frames the bridge process has sent are numbered, and `Read(c)` is how many
of them the handler has read. `Buffered` says that `buf` and the socket hold the rest,
in order, `AtHand` that the request being served is the last one read, `Stages` what
Chromium has heard and owes at each stage of the handler, `Streamed` that the i-th
frame after the handshake is the (k+i)-th sent, with k + i = `Read(c)` while the relay
runs: the hand-over of `buf` to the relays neither loses nor doubles a frame. `LinesOnce`
(a line is sent once), `Answers` and `Owed` do the same for what comes back. Over that
invariant `NoneForgotten` is inductive: `Whereabouts` is what has been answered, waits in
the socket or `buf`, is at hand, or is with Chromium, every step moves a request from one
of these to another, and the steps that lose one (a death of Chromium, a client that
leaves, a handshake that fails) end the connection, so that `Connected` fails.
`NoneLeftOpen` needs the types only: `Tidy(c)` says at each stage of the handler what its
connection to Chromium may be, so that a second one never replaces it. The lemmas
about sequences (`Tail`, `Append`, ranges and injectivity) are stated once, at the top.

### Only model-checked

Liveness under fairness: `ClosedAnswersAll`, `EveryRequestAnswered`, `LeavingIsReported`,
`CrashLeadsToRestart`, `WaitReadyEnds`, `UndisturbedWaitEnds`, `CallsEnd`,
`AnsweredOrClosed`, `GoneReleasesChromium`, `StartsEnd`. Their proofs need `ENABLED`,
which is beyond the provers used here. Seven of them have a theorem about what they
rest on (see the table); `CrashLeadsToRestart` rests on `StatesHaveThreads`, that a
ready Chromium has its monitor, and `WaitReadyEnds` and `StartsEnd` on the
deadlines of the loops they are about. `ImplementsCdpCalls` and `ImplementsClientStreams` are
about specifications without fairness, so they are proved in full.

## Abstractions

- In `McpSession` a tool call is a chain of commands (plus commands it does not wait
  for). Tools that wait for events or timers are in `WaitTool`, `CaptureTools`,
  `DomainTools` and `InputTools`, and in `McpServer` as the waiting tools.
- The agent answers later, never from within `DispatchProtocolMessage`, and
  `AttachClient` on an open agent succeeds.
- `next_cdp_id_` does not overflow.
- Requests without an id, and batches of them, are left out: the server answers
  nothing to them. `Shutdown()`, `DetachFromWebContents()` and the transports'
  `Stop()` are left out because nothing in the program calls them. (So nothing
  destroys a session today, and a browser that quits leaves the path of its
  socket. `McpSession` models its whole interface, `Detach()` and the destructor
  included.)
- One browser window; `chrome::FindLastActive()` gives it while it has tabs.
- A frame arrives whole or blocks; the parsing of the framings is left out. The
  broken frame of a line that came too slowly makes the daemon's handler return,
  or is passed on by a relay; the error Chromium may send for it is left out.
- `read()` returning 0 and a write to a closed peer failing stand for all
  errors of the connection.
- `close()` of a socket wakes a thread that is blocked in `recv()` on it, as on
  macOS, for which the daemon is written. On Linux it does not, and `_bridge`
  would depend on the other side to close too.
- In the manager, sleeps and time-outs have no duration, and the three or
  fifteen seconds a process is given to terminate are over at any time.
- `tools_cache.json` is absent, torn (being written) or full; a torn file is read
  as none.
- URL patterns are the set of requests they match; headers, bodies, coordinates,
  modifiers, file names and values of settings are left out.
- In `StartUp` a process id is not used again, the browser's process singleton is
  external (a browser may hand over to a running one), and daemons end by signals
  or errors of their own, not by `SIGKILL`.

## Where the code differs from its documents

Two of them are runs that TLC finds violated, with the quotation in
`PROJECT.json`:

1. `FailsForAReason` (`chains_selector`): the callbacks of tools get the CDP result
   itself, not a dictionary with the key `result` as `src/mcp_session.h:113` says.
   hover, scroll, drag and file_upload look for the key, so that each call with a
   selector fails although its commands succeed. (element, element_info and find
   look in both places.)
2. `EveryPausedRequestGoesOn` (`domains_hang`): the handler of
   `Fetch.requestPaused` is registered with the answer to `Fetch.enable`, and looks
   at a flag that all tabs share. A request paused before the answer is read, or
   after a disable that went to another tab, waits until Fetch is disabled in its
   tab.

The following are stated in the modules, and refuted when added to the
configuration in parentheses:

3. `ClosedTabIsUnassigned` (`MCMcpServer.cfg`): `DetachFromWebContents` has no
   caller, so a client whose tab is closed keeps it assigned and its calls fail
   until it selects another tab. The same cause leaves dead sessions in
   `sessions_`, where a new tab at the same address would find one.
4. `IdleMeansNoneOpen` (`MCWaitTool.cfg`): `src/tools/wait_tool.cc:472` says that
   networkIdle waits until there has been no request for the idle time, but the end of a request
   from before the wait brings the count to zero (`:568`) while one that the wait has
   heard begin is open. A redirect, on the other hand, is counted twice and ends once, so
   that the wait ends by its time-out.
5. `SendDoesNotBlock` (`MCSocketTransport.cfg` with `Spec`): on `EAGAIN` the write
   is repeated at once, without end.
6. `BlockedReadsStay` (`MCSocketTransport.cfg`): `O_NONBLOCK` also hits the
   reader's `read()`; its `EAGAIN` is taken for the end of the connection.
7. `NoOrphanAfterExit` (`MCChromiumManager.cfg`): `shutdown()` knows only `_proc`.
   A Chromium that is being started, or one the monitor gave up because its socket
   was dead, outlives the daemon. (A start that fails during shutdown also takes
   the state from `STOPPING` back to `STOPPED`, from where it may be started
   again.)
8. `EveryWaitEnds` (`MCWaitTool.cfg`): the waits of two clients share the tool's
   timers. The second wait replaces the time-out of the first, which then is never
   answered unless its event comes.
9. `LivingInstanceIsUsed` (`MCStartUp.cfg`): a launcher decides on what it has read
   before. Two that overlap launch two browsers, though
   `scripts/chromium-mcp-launcher.py:9-10` promises one. Nor does a launcher find
   a browser that a daemon has launched: no lock file names it.
10. `ServingIsReachable` (`MCStartUp.cfg`): a daemon that starts removes the path of
    one that serves, and so does one that ends (`cleanup`). The other goes on
    listening where nobody can find it.

Differences that are not stated as properties. The daemon and the scripts:

- `TEST_PLAN.md` says that Chromium is not restarted after a normal exit, but a
  monitor thread that sleeps through the cooldown of an earlier crash starts it
  if it finds `STOPPED`, whatever that is due to (`MonitorCooldownOver`).
- `MCP-SERVER.md:37` has `McpServer::Shutdown()` run when the browser ends; nothing
  calls it (`Ends` in `BrowserSocket`).
- `scripts/chromium-mcp-client.py:170`: half a line that waits for more than a
  second is framed as a message (`OnSelectTimeout`).

Waits and captures:

- The comment at `src/tools/wait_tool.cc:600` treats a failed request as
  completed. The handler counts it, but does not begin the idle time when it was
  the last one, so that a networkIdle wait ends with a time-out on a page at
  rest (`LoadingFailed`).
- The class `NetworkCaptureTool` is not registered. If it were: a networkIdle wait takes
  the handlers of its capture on the same tab away, and the other way round
  (`WaitToolTakesOver`). The answer to a stop may come after another client's start
  on another tab; it ends that capture, and returns its buffer
  (`OnNetworkDisabled`). A restart that fails leaves the first capture running
  without what it had collected (`OnNetworkEnabled`).
- The console tool (and that class): a stop from another tab than that of the start
  leaves the handlers of the start registered; those of the console go on filling
  the buffer (`StopCapture`, `OnConsoleEvent`).
- The performance tool: a second `stopTrace` replaces the callback of the first,
  which is never answered, and closing the tab between `Tracing.end` and
  `tracingComplete` has the same effect (`ExecuteStopTrace`). A `stopTrace` from
  another tab fails, resets the flag, and leaves a recording that no call can stop
  (`OnTraceEnded`). Of two starts that overlap, the one refused takes away the
  handler on the tab of whichever came last (`OnTraceStarted`).
- network_capture of the server is the Network domain of a tab, for all clients: a
  stop by one ends the capture of another (`ExecuteNetworkCapture`). Its records do
  not show whether a request without a code failed or is under way (`Noted`).

The server: tabs new with a url takes over any blank tab, also one that another client
has just opened (`TabsNew`). Calls of waiting tools are never answered when a later
call has taken their timer or callback, whatever becomes of the tab (`Parks`).

Coverage: stopCSS and stopJS always answer with an error, because they look for
the key `result`, as the selectors do (`OnStopped`). `Profiler.disable`, which the
header lists, is not sent (`OnJsCoverageTaken`).

Chains of commands:

- Of two typings with a delay the second takes over the timer, and the first is
  never answered (`OnCharKeyUp`, `TimerTaken`).
- element_info counts properties it does not know among those it waits for, and
  waits for nothing at all when the list of properties holds no string
  (`FetchProperties`, `Uncounted`).
- select_option reports success for a script that threw (`HasJsException`).
- The key that is released after a typed character is `Unidentified`, so the key
  of the character stays down (`OnCharKeyDown`).
- A drag that fails after the press leaves the button down (`InputFails`).
- Direction "down" of scroll sends a negative `deltaY`, which scrolls up
  (`src/tools/scroll_tool.cc:140`). The value is not part of the model.

## Not modelled

- The stdio transport: one client and one reader thread, with the hand-over to the
  UI thread that `SocketTransport` models for many.
- `McpLauncher`: compiled, but nothing creates one, and `McpTransportSocket` and the
  launcher script have their own handling of the same files.
- Page tools (click, fill, screenshot and others under `src/tools/`) that
  `RegisterBuiltinTools` does not register: the server has inline tools of the same
  names, whose calls are chains of commands. Those are in `McpServer`, which says
  when they are answered, and `McpSession`, for any chain; what they compute is
  JavaScript and formatting.
- The dialog tool: it waits for `Page.javascriptDialogOpening`, which the agent does
  not send because no tool enables the Page domain.
- Browser data tools (bookmarks, history, downloads, ...): one call of a browser
  service or one or two commands, with no state between calls.
- What the launcher relays, its configuration, and `chromium-mcp-launcher.sh`, an
  older version of it.
- Build files, patches and install scripts: no run-time behaviour of the system.

## Plan

All modules of the table are modelled and checked, and all safety properties of the
passing runs are proved. What a continuation would take up, in this order:

1. The two hazards without a property (`src/tools/wait_tool.cc:607`,
   `src/tools/performance_tool.cc:436`). The code goes wrong there, as the list of
   differences says; the property follows when it is decided what it should do.
2. A composition of `McpServer` with `ClientStreams` and `CdpCalls` in place of its own
   view of clients and sessions.
3. The inline tools of `src/mcp_server.cc` as tables of commands, as in `ChainTools`.
