# A verification project for robot-backend

`robot-backend` is a Spring Boot server (JeecgBoot with a chat application on
top): users log in with a password or an SMS code, keep friends and robots as
friends, receive announcements, and administrators run scheduled jobs, a message
queue, menus, roles, departments and dictionaries. Its state is in a MySQL
database, in redis and in the tables of a Quartz scheduler; a call is served by
one of many threads, and most calls make several accesses to that state with no
transaction around them. That is where the hard behaviour is: interleavings of
calls, copies that are stale when they are written back, failures and crashes
between two writes, and keys that expire. The server also hosts the client its
users read documents with, the PDF viewer in `static/generic/web/viewer.js`: a
single-threaded program full of promises, timers and browser events, where the
order in which those come is what can go wrong.

This directory holds TLA+ modules for the parts that carry the program's own
logic, TLC configurations that check them on small instances, and TLAPS proofs
of some of their properties for every value of the constants. Source paths below
are relative to `src/src/main/java/org/jeecg/`, those of the viewer to
`src/src/main/resources/static/generic/web/`; a bare line number in the viewer's
sections is one of `viewer.js`.

## 1. Inventory

| Part | State | Operations | Hard behaviour | What makes it correct |
|---|---|---|---|---|
| Friend relation (`modules/lelian/controller/RongFriendshipController.java`) | `rong_friendship`, two rows per pair | `operateFriendship` with codes 10, 20, 21, 30; console add, edit, delete, import | two reads and a write per call, no transaction, `getOne` throws on two rows | the rows of a pair come and go together, their statuses fit, a pair is there once if its requests do not overlap |
| Robot friendship (same controller, `LelianRobotController`, `LelianRobotServiceImpl`) | `lelian_robot`, `rong_user` | `robotFriendship`; console save, edit, delete, import | four steps and a remote registration before the request itself | no friend row of a robot unknown to `lelian_robot` by way of `robotFriendship`; bounded copies of a robot |
| Sessions and SMS codes (`LoginController`, `ShiroRealm`, `SysUserController`) | redis entries per token and phone, `sys_user`, `rong_user` | login, phoneLogin, the check of each request, refresh, logout, sms, register, phoneVerification | get, set and expire are three commands; expiry; overlapping logins | sessions end by logout or idleness, codes are those sent, bounded copies |
| Announcements (`SysAnnouncementController`, `SysAnnouncementServiceImpl`, `SysAnnouncementSendController`) | `sys_announcement`, `sys_announcement_send` | add, edit, release, revoke, delete, import, listByUser, mark as read | overlapping listings, whole-row writes of stale copies | read stays read, named users have a mark, bounded copies |
| Message queue (`modules/message`) | `sys_sms` | `sendMessage`, `SendMsgJob`, console | overlapping executions, crash between sending and writing, retry limit, null count | bounded attempts and hand-overs, no success nobody had, every message settles |
| Scheduled jobs (`modules/quartz`) | `sys_quartz_job`, the scheduler's triggers | add, edit, pause, resume, delete, import | scheduler first and row second, crash or refusal in between | table and scheduler agree after a completed call, no trigger without a row |
| Viewer: drawing of pages (`viewer.js`: `PDFRenderingQueue`, `PDFPageView`, `PDFThumbnailView`, `PDFViewer`, `PDFThumbnailViewer`) | rendering state of each page and thumbnail, the buffer of drawn pages, the view that may draw | draw, pause, continue, cancel, reset, evict; scroll, zoom, rotate, sidebar, print, idle cleanup | slices of a drawing alternate with everything the reader does; late pages, cancelled drawings | what is on the screen gets drawn as far as its pages come, drawn pages stay in the buffer, printing loses no page |
| Viewer: text search (`PDFFindBar`, `PDFFindController`, `TextLayerBuilder`) | query, matches by page, selection, offset, highlights | find, find again, extract, match, highlight | the text arrives while the search runs and while the query changes | answers are true, nothing of an old query remains, a search goes as far as the text that came |
| Viewer: presentation mode, hand tool (`PDFPresentationMode`, `HandTool`) | mode, timers, saved zoom, tool | request, enter, exit, zoom, toggle | the browser answers late and delivers events late | the mode ends, zoom and tool come back |
| Viewer: printing (the `mozPrintCallback` polyfill, `beforePrint`, `afterPrint`) | job, index, canvases | print, draw, cancel, abort | cancelled jobs leave callbacks and timers behind | the paper is complete, jobs end |
| Viewer: opening documents (`PDFViewerApplication`, `OverlayManager`, `PasswordPrompt`) | open document, pages, thumbnails, bookmark, overlay | open, close, load, setInitialView, setHash, password | answers of a document that was closed meanwhile | the pages are those of the open document, at the position kept for it |
| Viewer: histories (`ViewHistory`, `PDFHistory`) | localStorage; the browser's session history | load, set; push, back, forward, reload | tabs overwrite each other; back is carried out later | bounded and last position kept; back and forward go where they should |
| Menu tree, role permissions, user caches (`SysPermissionServiceImpl`, `SysRolePermissionServiceImpl`, `SysUserServiceImpl`) | `sys_permission`, `sys_role_permission`, caches in redis | add, edit, delete of menus; grants; roles of a user | leaf flags computed from counts, caches evicted on some changes | leaf if and only if no children; grants are what was asked; caches are fresh |
| Departments, categories, dictionaries | trees with generated codes, `sys_dict` | add, edit, recursive delete | two additions compute the same next code | codes unique and prefixed by the parent's |
| tio push (`tio/`) | channel bindings | bind, send, unbind | messages racing a disconnection | only bound users receive |
| Aspects, configuration, monitor, ngalain, logs, templates | none between rows | logging, wiring, read-only views | none | not modelled |
| Viewer: toolbars, preferences, outline, attachments, `l10n.js`, `debugger.js`, `compatibility.js`; `pdf.js` | wiring; the library | buttons, translation; parsing and drawing | none of their own | not modelled; `pdf.js` is the environment of the viewer's modules |

How they interact: every request but the anonymous ones passes the token check
of the sessions; `robotFriendship` goes on as `operateFriendship` on the same
friend table; logins and robots write the same table `rong_user`; `SendMsgJob`
is a job of the scheduler; the rest share only the database. The viewer meets the
server only in the documents it fetches; its parts share one event loop and, in a
few places, state: printing stops the drawing of the screen, opening a document
resets everything else, positions are written to both histories.

## 2. Modules

### Friendship, FriendRelation, MCFriendship

`Friendship` models `operateFriendship`. `rows` is the table by primary key,
`call[t]` the local variables of the call that thread `t` serves. A call is three
steps: `ReadOwn` (the caller's row), `ReadPeer` (the friend's row; code 21 has no
such step) and `WriteAsk` or `WriteStatus`. A `getOne` that finds two rows throws
and a null row is dereferenced: both end the call. `WriteAsk` keeps the
`entityList` logic: two missing rows are saved, none is an update of an empty
list, one is an error. `WriteStatus` is `updateBatchById` on the copies, which
does not insert a row that has gone. `Spec` is the clients alone; `ConsoleSpec`
adds the console, `AdminSave`, `AdminEdit` and `AdminRemove`, which write single
rows and so can break every property of the table but its types:
`RobotFriendship` composes it with the clients. Names, messages and dates are
left out.

`FriendRelation` is the abstract specification: a function from ordered pairs to
a status, with the atomic operations Ask, Accept, Ignore and Delete. The
refinement mapping (`Relation` in `Friendship`) takes a pair to the status of its
row (`StandingTo`); `ImplementsRelation` says that with serial requests every write is one
operation of it. `MCFriendship` gives the calls and symmetry.

### RobotFriendship, MCRobotFriendship

Composes the friend table with `lelian_robot` and `rong_user` by `INSTANCE
Friendship`. `adding[t]` is the request a thread prepares: `ReadRobot`,
`SaveRobot`, `LookupRong`, `Register` (RongCloud answers 200, another code, or
fails), `SaveRong`, `AskRobot`, after which the call is one of Friendship. The
console's `saveRobot` is a transaction, but the exception of the registration is
a checked one and commits it, so both outcomes are in `ConsoleSave`. `forgotten`
is a history variable: the robots whose row the console overwrote or removed;
`typed` has those it saved or edited a row into.
`Operate` is `operateFriendship` beside it, with any code and any two ids: it never
looks at `lelian_robot`, so its request (like a row typed into the friend console)
can make a friend of a robot nobody saved; the history variable `direct` has the
robots named that way. User ids and robot ids are taken to differ (`RobotsAssumption`): a user's is a
generated UUID, a robot's comes from the caller.

### Login

Sessions and codes. `redis[k]` is the time to live of token `k`'s entry (-1 for
none, -2 for no entry, as redis reports it), `code[p]` the entry of a phone.
`userInfo`, the token check of `ShiroRealm` and `refreshJwtToken` share the steps
`SetToken` and `ExpireToken`; what follows (`AfterExpire`) is the RongCloud row
for a login, the deletion for a logout, and the entry of the named token for
`refreshJwtToken`. The value of an entry is left out because it decides nothing:
a token whose signature ran out is signed again under its old key. `Tick` lets
time pass between any two accesses. `register` saves the user, reads it back,
asks RongCloud and saves a row with no lookup before. The database schema is not
in the repository, so `users[p]` counts rows and two of them make the lookups
throw. `owner`, `sent`, `gone` and `orphans` are history variables.

Tokens are taken to be fresh at every login; `JwtUtil` is a library class.

### Announcements, MCAnnouncements

`annt[a]` is the announcement's row (the named users, none for "all"; status;
deletion flag), `marks[a][u]` counts the user's rows of the read table by
flag. `Add` and `Edit` are the two transactions of `SysAnnouncementServiceImpl`;
`Edit` begins by updating the announcement's row, whose lock keeps edits of one
announcement apart. `ReadForUpdate` and `Update` are release, revoke and delete:
a copy is read and written back whole. `List`, `Select` and `InsertMark` are the
three parts of `listByUser`. `told` and `seen` are history variables.

### SendMsg, MessageOutbox

`table[m]` is the row of a message, `exec[e]` an execution of `SendMsgJob`: the
copy of the table it listed, what it has left, and the message whose result it
has not written yet. `Attempt` is the call of the handler and the increment of
the copy's count, which throws out of the job on a null count; `WriteBack` is
`updateById`; `Crash` loses the executions. `attempts` and `sent` are history
variables, and `touched`, the messages the console added or edited. The senders are external: they return or throw.

`MessageOutbox` is the abstract specification: a message is new, waiting, sent or
given up; it is handed over or fails, a hand-over is recorded or its record is
lost in a crash, and it is given up after `RetryLimit` failures. The refinement
mapping (`Outbox` in `SendMsg`) reads where a message stands from its row, the
failures from the history, and the hand-over not yet recorded from the execution
that holds it. `ImplementsOutbox` says that with one execution at a time the job
does nothing else: its copies, the order it takes them in and the counts it
writes back do not show. In particular no step of the outbox takes a message out of
"sent" (`SuccessIsFinal`, which is proved on its own and not checked in a run).

### QuartzJobs

`table[k]` is a row of `sys_quartz_job`, `sched[c]` the trigger under a class
name, `work[t]` a call between its steps. The scheduler is external: it refuses a
second trigger of a name, an unknown class and a bad cron expression, ignores the
pause of an absent job, and keeps its triggers through a crash. A form or an
imported row may have a null status (`None`): `Save` inserts it, `Update` leaves the
column alone (`updateById` skips nulls), and `Edit` takes the branch that pauses the
trigger, as for every status but the normal one. A setup says which
operations, threads, rows and crashes there are; it is chosen in `Init`, so that
one specification has both the single administrator and the overlapping ones.

### PageRendering, MCPageRendering

The one part of the client where the reader's actions, the browser and pdf.js
meet at every step. `state[v]` is the `renderingState` of a view (page `p`, or its
thumbnail `Thumb(p)`), `highest` the view that may draw, `buffer` and `size` the
`PDFPageViewBuffer`, `jobs` the promise callbacks that run before the next event.
A drawing is `DrawPage` or `DrawThumb`, then `Pause`, `ContinueRendering`,
`Finish` or `Rejected`. `want` are the views whose page was asked for and `Answer`
delivers one; it need never come, which is what a refused `getPage` amounts to:
neither 4899 nor 5466 handles the rejection, the request is kept, and the queue
goes on choosing that view. The reader's handlers are
actions of their own: `Scroll` and, one frame later, `ScrollUpdate`; `Zoom`,
`Rotate`, `ToggleSidebar`, `BeforePrint`, `AfterPrint`; `Cleanup` is the idle
timer's. Each ends as the code does, with `update` and `forceRendering`. Pixels
are abstracted to the pages on the screen (`Screens`). `CanvasesBuffered` is about
what is drawn or being drawn; `NoLostWakeup` says that while there is something to
draw somebody is still to continue, or the view to draw next waits for its page
(`WaitsForPage`); `EventuallyDrawn` that in the end everything on the screen is
finished or drawing stands at such a view.

### FindController

`matches[p]` is the query a page's matches belong to, `extracted` how far the text
has come, `waits` the pages matched when theirs arrives (`pendingFindMatches`),
`resume` the page a search waits for (`resumePageIdx`). `NextMatch` is the search
with its loops (`matchesReady`, `advanceOffsetPage`), `HandleEvent` and
`FindTimeout` the find bar's events and their 250 ms. `ExtractPageText` need never
happen: a refused `getTextContent` (1195) has no handler and ends the extraction, so
a search may wait for ever, and `SearchSettles` says only that it goes as far as the
text that has come. Strings are abstracted to
the number of matches a query has on a page (`Hits`).

### PresentationMode, Printing

The browser is part of both: `Answer` grants or ignores a request for fullscreen
at any time, and the viewer may ask again once it gave a request up (the 1500 ms of
2093-2097) though it is not answered yet; `FullscreenChange` is delivered later and looks at what is the case
then; `Drawn`, `DrawError` and `TidyUp` are the callbacks of a print job,
identified by it, though the code's act on whatever job there is. `restarted`
marks a job begun over the remains of a cancelled one.

### DocumentLoad, ViewHistory, PDFHistory

`DocumentLoad` names a document by its call of `open`; `phase` is how far it is,
`Loaded`, `Fails`, `FirstPage`, `NeedsPassword` are pdf.js's answers in any order.
The first page need not come (`Dropped`): a refused `getPage(1)` leaves the document
open without pages and without an error, and `OpeningSettles` allows for it.
`ViewHistory` is the array in localStorage with the copies of several tabs.
`PDFHistory` is the browser's session history (`h.entries`, `h.at`) with what
PDFHistory believes about it (`current`, `currentUid`, bookmarks): `Go` asks the
browser, `PopState` comes later. Premises: `hasty`, `clashed` and `reloaded` mark
the situations where the code is known to lose track (see "met while modelling").

### ViewerParts, MCViewerParts

These five and the search share no state worth interleaving, so one module,
`ViewerParts`, puts them side by side, and `MCViewerParts` gives it small documents
and places: each behaviour belongs to one part and the others
keep their initial state. Each part states its own properties; the conjunctions
checked are named here (`SearchIsRight`, `ModesAreLeft`, `DocumentIsOpen`,
`HistoryIsRight`, `PartsSettle`).

## 3. Runs

| Run | Module | Instance | Checks |
|---|---|---|---|
| `friendship_overlap` | MCFriendship | 2 users, 2 threads, 8 keys, every code both ways and a user who names himself | TypeOK, MirroredRows, ConsistentPairs, DuplicatedRowsFrozen |
| `friendship_serial` | MCFriendship | 2 users, 3 threads, requests of a pair serial | UniquePairs, ImplementsRelation |
| `friendship_rerequest` | MCFriendship | 1 thread | ReRequestUpdatesStatus is violated |
| `robot` | MCRobotFriendship | 1 user, 1 robot, 2 threads, both handlers, the robot console, one call of the friend console | TypeOK, FriendRobotsKnown, RobotCopiesBounded |
| `send_serial` | SendMsg | 2 messages, 1 execution, limit 2, 1 crash, fair job | AttemptsBounded, HandedOverOnce, EveryMessageSettles, ImplementsOutbox |
| `send_overlap` | SendMsg | 1 message, 2 executions, 1 crash, console | TypeOK, HandOversBounded, UncountedNeverMoves |
| `quartz` | MCQuartzJobs | 2 classes; 2 rows, 1 administrator, every operation, 1 crash; or the same without crash and renaming; or 3 rows, 3 administrators who add and pause | TypeOK, OneNormalRow, CompletedCallsAgree, TriggersHaveRows |
| `login` | Login | 1 phone, 1 code, 2 tokens, 2 threads, lives 2 and 1, 1 crash, time | TypeOK, SessionsHaveDeadline, LogoutIsFinal, RongRowsBounded, IdleSessionsEnd |
| `login_codes` | Login | the same | CodesHaveDeadline is violated |
| `announcements` | MCAnnouncements | 1 announcement, 2 users, 2 threads, every operation | TypeOK, ReadStaysRead, MarksBounded, NamedAreMarked |
| `viewer_pages` | MCPageRendering | buffer of 2; 4 pages scrolled, 3 pages two at a time zoomed, 2 pages with thumbnails, rotated and printed | TypeOK, CanvasesBuffered, NoLostWakeup, NoCleanupWhilePrinting, EventuallyDrawn |
| `viewer_parts` | MCViewerParts | search of 3 pages, 3 searches; 5 presentation requests; 3 print jobs of 3 pages; 3 openings of 2 files, one locked; 4 files in a history of 3, 2 tabs; 4 trips over 3 places | PartsTypeOK, SearchIsRight, ModesAreLeft, DocumentIsOpen, HistoryIsRight, PartsSettle |

What they show:

- **Friends.** Two requests that overlap can duplicate a pair, and then `getOne` throws for good: no client can change the
  pair, only an administrator (`DuplicatedRowsFrozen`). But no interleaving
  leaves one row of a pair without the other or an acceptance on one side only.
  With serial requests the table is the abstract relation.
- **Robots.** Whoever inserts the robot first, its row is there before
  `robotFriendship` writes a friend row that names it; `operateFriendship` and the
  friend console are the only ways past that. Additions that overlap can insert
  and register a robot more than once, at most once per thread.
- **Messages.** With one execution at a time the limit holds up to one attempt
  per crash, and a message is handed over once and once more per crash; what the
  job does is what an outbox would do in single steps.
  When executions overlap the limit does not hold (each writes the count of its
  own copy), and a failure may replace a success and be retried; but a message
  that never fails, and that the console leaves as it was pushed, is handed over
  once per execution and crash, and no more.
- **Jobs.** No transaction spans scheduler and table, and nothing compares them
  at start; but a completed call on the class brings them together again, except
  the addition of a job that is not normal and the edit with a null status, and
  only a renaming edit, a crash or an overlap leaves a trigger without a row.
  Of overlapping additions of a normal job the scheduler lets one through.
- **Sessions.** An entry without a time to live is always about to get one, or
  was left by a crash, and unused sessions end. A token that was logged out while
  another request held it may come back; otherwise it is out for good unless
  `refreshJwtToken` is given it.
- **Announcements.** Listings that overlap can mark twice, and an announcement
  read while a listing is under way can appear unread again; without such an
  overlap what was read stays read, through edits too, and everybody an edit
  names has a mark.
- **Drawing.** However scrolling, zooming, rotating, printing and the sidebar cut
  into drawings, a canvas outside the buffer never stays, the drawing never stalls
  with something undrawn on the screen but for a page that pdf.js does not deliver,
  and the cleanup never takes pages from a
  print job, because `beforePrint` clears its timer.
- **The viewer's other parts.** A search tells the truth about the query it is
  for and ends when the text it needs comes, presentation mode and print jobs end with everything as before, the pages
  shown are those of the open document at the reader's position, the histories
  keep their bounds and numbers: each unless one of the named premises fails.

### Disagreements with the comments

Two are checked as violated runs: a request between users whose rows exist
changes nothing, although `RongFriendshipController.java:306` says that the
status is changed (deleted friends cannot become friends again); and
`phoneVerification` writes the code back without a time to live, although
`LoginController.java:262` says ten minutes (the phone then gets no new code).

Others were met while modelling and have no run: `getAskFriends` lists the rows
of the users the caller asked, not of those who asked him (line 279);
`queryAllFriendsByUserId` joins on the owner of the row and answers the user
himself; code 20 does not look at the status, so the user who asked can accept
(line 353, "the row of status 11"); two first additions of a robot leave two
managers (line 427, "the first user is the manager"); `QuartzJobController.add`
lets two overlapping additions of a paused class both in (line 96); an edit of a
job that changes its class name leaves the old trigger running
(`QuartzJobServiceImpl.java:78`); an edit with a null status pauses the trigger and
leaves the row normal (lines 80-83), which the next completed call repairs; the
request of `operateFriendship` accepts a robot `lelian_robot` does not have
(line 299), and `robotFriendship` never registers a robot whose registration failed
once, because its row is there (line 448).

### Met while modelling the viewer

No document promises the contrary, so these have no run; where a property needs
them excluded, the premise is a variable of the module.

- Pages and texts that are refused: neither `getPage` (4899, 5466, 6365) nor
  `getTextContent` (1195) has a handler for a rejection. The drawing queue stands at
  the refused page and never draws what is behind it, a search that needs the text
  of that page or of a later one stays pending, and a document whose first page is
  refused is open without pages. In the model these answers owe nothing: they may
  never come, and the liveness properties say what holds then.
- Search: turning round (previous instead of next) while a search waits for text
  can end in "not found" though there are matches (`turned`); `offset.wrapped` is
  not reset; a `resumePageIdx` of 0 is tested for truth; `reset` leaves
  `pendingFindMatches`; closing the find bar leaves its timer running.
- Presentation mode: a second exit event finds no `args` (null) and throws; a
  request granted after the switch timed out is not noticed, and the browser is
  full screen while the viewer presents nothing;
  `isChangingPresentationMode` is misspelt at 4855-4857.
- Printing: a job begun over a cancelled one is advanced by the callbacks and the
  timer of the old (`restarted`).
- Opening: two overlapping calls of `open` can leave the pages of both and one
  document undestroyed (`hasty`); a change of the hash between open and load is
  lost; a bookmark with a zoom beyond the last page throws and the pages stay
  unscaled; the title in the properties dialog can be the previous document's (2918).
- Histories: a tab that is behind overwrites the positions of the others
  (`clashed`), and when the history is full the file being loaded can be the one
  dropped; every document adds a popstate listener; a reload gives an entry a
  number above those ahead of it (`reloaded`), and a first entry that was replaced
  no longer has number 0, so back leaves the document.

### Bounds

Every bound is a constant. Two threads show every race of two calls, three the
serial discipline among bystanders; keys (`Ids`, `RobotKeys`, `Keys`) are enough
for every copy those threads can insert, so no insertion is ever blocked in
`friendship_overlap` and `friendship_serial` (in `robot` and `quartz` the tables
can be full, which cuts the behaviour there; in `robot` rong_user has a key more
than there are threads, so that a copy too many would show, lelian_robot has not
and its copies are bounded by the proof). `RetryLimit` is
2 instead of 6: the limit is only compared and counted up to. `MaxAttempts`
bounds the history of attempts where executions overlap and is out of reach in
`send_serial`; in `send_overlap` it is one more than the four hand-overs allowed,
so that a fifth would show. `MaxCrashes` is 1: a second crash repeats the first. `TokenLife`
is 2 so that an entry can be renewed before it runs out. `MaxMarks` stops an
administrator who adds marks by hand. In the viewer a buffer of 2 instead of 10 is
full at once with 4 pages; a setup's `moves`, and `MaxSearches`, `MaxRequests`,
`MaxPrints`, `MaxOpens`, `MaxViews` and `MaxTrips`, bound what the user does, not
what the browser and pdf.js do; three of each let a second one overlap the first
and a third come after, and a history of 3 is full with the fourth file. Deadlock
is not checked where the instance may stop (no keys, tokens, attempts or moves
left); the client never has to call.

### Fairness

`send_serial` uses weak fairness of each execution's steps (`Job(e)`): the cron
trigger fires again and again and an execution that was started goes on; nothing
obliges anybody to push, edit or crash, and a crash is never fair. `login` uses
weak fairness of `Tick` alone: redis counts time whatever the server does. The
viewer's runs use weak fairness of what the browser and pdf.js do without the
reader: in `viewer_pages` `Work` (promise callbacks, frames, the slices and ends of
drawings), in `viewer_parts` the timers and callbacks of each part and pdf.js's
answers for documents and destinations. Pages, the text of pages and the
first page of a document are left out: pdf.js may refuse them and nothing handles
that, so their arrival is never assumed. The event loop runs
what is ready, so one of them happens as long as one can; which one is left open,
and nothing obliges the reader to do anything. No other run assumes fairness.

## 4. Proofs

Eight modules hold theorems that TLAPS checks for all values of the constants:
`SendMsgProofs`, `FriendshipProofs`, `RobotFriendshipProofs`, `LoginProofs`,
`AnnouncementsProofs`, `QuartzJobsProofs`, `PageRenderingProofs` and
`ViewerPartsProofs`. Every invariant and action property that a passing run
checks is a theorem, and both refinements are. The assumptions are the named ASSUMEs of the modules (null is
no row, the bounds are numbers, rows, threads and executions are finitely many) and
those stated in a theorem.

**SendMsg.** `TypeCorrect` is the type invariant. `SuccessWasSentCorrect` needs,
beside types, that an execution which holds the result "success" for a message
is preceded by a return of the handler (`sent[m] > 0`); with it the step that
writes a success is justified, whatever overlaps (proved on its own, no run checks
it). `HandOversBoundedCorrect` is about the messages that are not `touched`, those the
console neither added nor edited: while no handling of one failed, its row is as pushed or a success (`UnfailingRows`), and the invariant
`HandOversFit` counts: until the row is a success, the hand-overs are at most the
executions times the crashes plus those still to be written back; and hand-overs
plus executions yet to try are at most the executions times one more than the
crashes. An execution that starts finds no success, and is not among those that
tried; one that ends on a null count held a touched message (`CopiesCounted`). `AttemptsBoundedCorrect`,
`HandedOverOnceCorrect` and `SuccessIsFinalCorrect` assume one execution at a
time and no console (`Serial`). Their inductive invariants relate the history to
the row and to the attempt in flight: attempts are at most the row's count, plus
one if an attempt is not written yet, plus the crashes; an eligible row has a
count below the limit; a success handed over is written or about to be, or a
crash has been spent on it; and the execution's copy is the row, for everything
it has left to do. `UncountedNeverMovesCorrect` needs no such premise: nobody takes
a count away from a row, so a copy with a count stands for a row with one, and a
copy without one ends the execution before it writes. `ImplementsOutboxCorrect` is
the refinement, under `Serial`: beside the invariant above the count of a row that
is no success, plus the failure not written yet, is at most the failures so far, so
that a message is not given up early. An attempt is HandOver or Fail, a write back
Record, GiveUp or, of a failure below the limit, no step, and a crash loses the
record.

**Friendship.** `TypeCorrect` and, with the console, `ConsoleTypeCorrect`.
`UniquePairsCorrect` assumes serial requests; the invariant says that a request
that read no row still finds none when it writes, because nobody else asks for
the pair meanwhile and the other codes insert nothing. `ConsistentPairsCorrect`
holds for any overlap; the invariant gives a pairing (`Partners`): an involution
on the rows that mirrors them and their statuses, and that takes the first row of
every call to its second one, so that an update always hits both halves.
Insertion extends the pairing with the two new rows; no client removes one.
`MirroredRowsCorrect` counts with it: the pairing is a bijection between the rows
of a pair and those of its mirror. `DuplicatedRowsFrozenCorrect` needs that a
duplicated pair makes `getOne` throw before a call can hold a row of it.
`ImplementsRelationCorrect` is the refinement, for serial requests between
different users: rows are unique, so a pair's standing is its row's status, an
insertion of two rows is Ask, and an update of a row and its partner is Accept,
Ignore or Delete of the pair, however stale the copies of the call were.

**RobotFriendship.** `TypeCorrect`. `FriendRobotsKnownCorrect`: a robot is known
from the moment its row is committed, and of all steps only a request brings new
names to the friend table; the others write names that a row or a call holds
already, what the robot console takes away it forgets, and what `Operate` and the
friend console name is in `direct`. It assumes that user ids and robot ids differ.
`RobotCopiesBoundedCorrect` counts a call that is about to insert a row as one
already (`Fits`): rows and such calls together are no more than the threads, since a
thread gets to insert only after it saw a table without the robot, when there are
only calls to count.

**Login.** `TypeCorrect` needs that a call carries the locals its next step uses
(`Sound`): a code to write, a token to set, an operation that says what follows
`expire`. `HeldCodes` adds that a code about to be written went to its phone.
`SessionDeadlines` is inductive beside the types. `LogoutHolds` adds that a call
whose token is gone can only be a `refreshJwtToken` about to renew its argument
(`GoneUnheld`: without it a request that passed the check before the logout
would write the entry again), and that a token held or logged out is owned, so
that no login gets it a second time (`HeldOwned`). `RongRowsBoundedCorrect`
counts a call that will insert a row as one already: a registration inserts
without a lookup, but it passed a check that found no user, and there is no row
before there is a user. All hold for any overlap of
any number of calls, with crashes.

**Announcements.** The invariant `PairInv` is about one announcement and one
user: a user who was told has a mark or is about to have one, whoever is counted
as having read has no unread mark and no listing of his still has one to insert,
and the marks are at most the listings that inserted or will insert one, plus
those made by hand. `ReadStaysReadCorrect`, `MarksBoundedCorrect` and
`NamedAreMarkedCorrect` follow from it, and none of them from itself.

**QuartzJobs.** `OneNormalRowCorrect`: with additions and pauses alone a trigger
never disappears, so at most one addition of a class gets past the scheduler; the
invariant `OneTaken` counts the normal row and the call about to save it as one.
`CompletedCallsAgreeCorrect` (one administrator): the invariant `InStep` says what
the scheduler holds for the class of the call under way before each of its
writes, and that the row it will write is still there; crashes and imports touch
neither, since an import only takes a free key. The last write of a call then
makes table and trigger agree, whatever was apart before; an edit with a null status
is outside its premise, as a later call is not. `TriggersHaveRowsCorrect` adds
(`KnownInv`) that the row a call holds has the class of the row it will write, as
nothing renames, so that removing a row or refusing a job takes the trigger first.

**PageRendering.** `CanvasesBufferedCorrect` and
`NoCleanupWhilePrintingCorrect` are inductive with the types of the views: a page
the buffer evicts is reset in the step that pushes or resizes.
`NoLostWakeupCorrect`, which assumes nothing about pages that do not come, needs
`WakeInv`: every callback that draws finds an
unfinished view with its page there, because views are finished only when no
callback is left for them, and a view whose page is not there was never begun. A
callback then draws, or asks the queue, which finds all views finished or leaves
a callback or, for a page that is not there, a wish. A drawing that is cancelled while it runs leaves its
rejection, which is a callback too. `TypeCorrect` says more than types: what is
waited for is a page of the document that is not there yet, because the queue
chooses among what is shown only.

**ViewerParts.** A step is one of one part and a stutter of the others, so each
part keeps an invariant of its own (`PartsInvariant`), which holds with no bound on
what the reader does:

- *Presentation mode* (`ModeInv`, `ViewInv`). All timers that run are of one kind,
  as they have no delay and the browser's state does not change under them; while
  the mode is on, the zoom and the hand tool to return to are those kept.
- *Printing* (`PrintInv`, `JobInOrder`). A job with nothing left of another has
  one drawing under way, that of its index, and has drawn exactly the canvases
  before it.
- *View history* (`ViewHistoryInv`). Each copy is within the limit and knows a
  document once, and a copy that is not stale has all positions but that of the
  document its tab is about to write (`CopyFits`). That the documents are as many
  as the entries is a bijection (`DistinctCardinality`).
- *Opening* (`LoadInv`, `Settled`). Unless a file is opened hastily there is one
  document at a time: pending, open with its first page to come, or shown.
- *Session history* (`HistInv`). The numbers rise along the entries and the last
  is one below the next (`Ordered`); PDFHistory is in step with the browser except
  between the position `_goTo` writes and the way back to the entry meant.
- *Search* (`FindInv`). A search that waits stands at a page without text, and the
  pages it has passed have no match (`Passed`). These are the pages behind its
  offset in the direction of the search, counted with the modulus, so that when it
  gives up they are all pages (`PassedAll`); the module's first lemmas are about
  the modulus for that reason. Turning round breaks `Passed`, which is why
  `AnswersAreTrue` has the premise `turned`.

The runs look at one part at a time. `TogetherCorrect` says that this loses nothing:
each part from any of its own initial states, and their steps interleaved or
coinciding in any way, all the invariants hold.

Not proved: liveness (`EveryMessageSettles`, `IdleSessionsEnd`, `EventuallyDrawn`,
`PartsSettle`) and anything about ENABLED, which the prover does not do; they are
model-checked only. What a fold computes for every sequence is an induction over
data and out of reach too; of the pages that have been counted (`ViewCount`) the
proofs use its value for no document and for one.

## 5. Not modelled, and the plan

Not modelled for good: aspects, configuration, monitoring, the ngalain adapter,
logs and templates: no state of their own with more than single-row accesses.
`viewer.js` descends from a public project, but it is part of what this server
serves and the repository's only concurrent client code, so its core is modelled; `pdf.js` itself is its environment, and
localisation, debugging aids, polyfills and the wiring of toolbars, outline,
attachments and preferences keep no state whose order matters. The reader editing
the address is left out of `PDFHistory`, dragging and the mouse wheel out of
`PresentationMode`. Of `Login`, freezing and changing users
and the choice of a department are left out; of the friend relation, the queries.

In this order:

1. `Menus`: add, edit and delete of menus with leaf flags, role grants, and the
   caches of roles and permissions (composition: the caches are read by the
   permission check and evicted by the grants). Runs: a serial one for "leaf if
   and only if no children", one for the caches.
2. `Departments`: generated codes and recursive deletion; categories share the
   code generator, checked against a reference definition over small inputs.
3. `Dictionaries` (cache) and the tio push (channel bindings).
4. Abstract specifications of the scheduler (an installation whose rows and triggers
   agree after each call) and of the sessions.
