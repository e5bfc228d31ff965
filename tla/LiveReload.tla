----------------------------- MODULE LiveReload -----------------------------
(***************************************************************************)
(* The page the web server serves (web_server.cpp): index.html is read at  *)
(* the start and again whenever its modification time has changed, it goes *)
(* out in chunks from one buffer that every transfer shares, and pages     *)
(* with a WebSocket are told to reload when the buffer has been replaced.  *)
(*                                                                         *)
(* The actors are an editor, the server's one thread (its callbacks and    *)
(* checkLiveReload, with the file system calls as steps of their own       *)
(* because the editor may come between them) and the browsers.             *)
(***************************************************************************)
EXTENDS Integers, Sequences, FiniteSets

CONSTANTS
  Browsers,   (* the browsers that show the page                           *)
  MaxEdits,   (* bound: how often the file is edited                       *)
  Chunks      (* chunks of 4096 bytes that each version of the file takes  *)

Version == 0 .. MaxEdits

ASSUME ReloadAssumption ==
  /\ MaxEdits \in Nat
  /\ Chunks \in [Version -> Nat \ {0}]

VARIABLES
  file,       (* the version on disk; every edit also gives it a new mtime *)
  phase,      (* where the server is: see Phases                           *)
  html,       (* htmlContent                                               *)
  lastMod,    (* htmlLastMod                                               *)
  mod,        (* mod, the local variable of checkLiveReload                *)
  sess,       (* httpSessions: the position of each transfer, or None      *)
  page,       (* what each browser has: its state, the Content-Length it   *)
              (* was promised and the chunks it got                        *)
  note,       (* is a `reload` queued for the page's WebSocket             *)
  raced,      (* was the file edited between the first read and its stamp  *)
  swapped,    (* was the buffer replaced during the page's transfer        *)
  late        (* did the page connect with content no longer the buffer's  *)

server     == <<phase, html, lastMod, mod>>
pages      == <<sess, page, note>>
remembered == <<raced, swapped, late>>
rvars      == <<file, server, pages, remembered>>

Phases == {"reading", "stamping", "serving", "changed"}
None   == -1
Blank  == [state |-> "closed", want |-> 0, parts |-> <<>>]

Chunk(v, n) == [of |-> v, at |-> n]
Whole(v)    == [n \in 1 .. Chunks[v] |-> Chunk(v, n - 1)]

Connected == { c \in Browsers : page[c].state = "connected" }

ReloadInit ==
  /\ file = 0 /\ phase = "reading" /\ html = 0 /\ lastMod = 0 /\ mod = 0
  /\ sess = [c \in Browsers |-> None]
  /\ page = [c \in Browsers |-> Blank]
  /\ note = [c \in Browsers |-> FALSE]
  /\ raced = FALSE
  /\ swapped = [c \in Browsers |-> FALSE]
  /\ late = [c \in Browsers |-> FALSE]

-----------------------------------------------------------------------------
(* The editor. *)
Edit ==
  /\ file < MaxEdits /\ file' = file + 1
  /\ UNCHANGED <<server, pages, remembered>>

(* run, before the loop: the file is read, then its time is taken. *)
FirstRead ==
  /\ phase = "reading" /\ phase' = "stamping"
  /\ html' = file
  /\ UNCHANGED <<file, lastMod, mod, pages, remembered>>

Stamp ==
  /\ phase = "stamping" /\ phase' = "serving"
  /\ lastMod' = file
  /\ raced' = (html # file)
  /\ UNCHANGED <<file, html, mod, pages, swapped, late>>

-----------------------------------------------------------------------------
(* checkLiveReload, between two calls of lws_service. *)
Check ==
  /\ phase = "serving" /\ file # lastMod /\ phase' = "changed"
  /\ mod' = file
  /\ UNCHANGED <<file, html, lastMod, pages, remembered>>

Replaced ==
  /\ swapped' = [c \in Browsers |-> swapped[c] \/ sess[c] # None]
  /\ late' = [c \in Browsers |-> FALSE]

LateReRead ==                          \* mutant: the time is taken after the read
  /\ phase = "changed" /\ phase' = "serving"
  /\ html' = mod /\ lastMod' = file
  /\ note' = [c \in Browsers |-> note[c] \/ c \in Connected]
  /\ Replaced
  /\ UNCHANGED <<file, mod, sess, page, raced>>

SilentReRead ==                        \* mutant: nobody is told
  /\ phase = "changed" /\ phase' = "serving"
  /\ html' = file /\ lastMod' = mod
  /\ Replaced
  /\ UNCHANGED <<file, mod, pages, raced>>

ReRead ==
  /\ phase = "changed" /\ phase' = "serving"
  /\ html' = file /\ lastMod' = mod
  /\ note' = [c \in Browsers |-> note[c] \/ c \in Connected]
  /\ Replaced
  /\ UNCHANGED <<file, mod, sess, page, raced>>

-----------------------------------------------------------------------------
(* A browser asks for the page (LWS_CALLBACK_HTTP): the server answers     *)
(* with the length the buffer has now.  The connection of a transfer that  *)
(* the browser gave up is closed by then.                                  *)
ResumedTransfer(c) == IF sess[c] = None THEN 0 ELSE sess[c]  \* mutant: goes on where it was

NewTransfer(c) == 0

Get(c) ==
  /\ phase = "serving" /\ page[c].state \in {"closed", "reloading"}
  /\ sess' = [sess EXCEPT ![c] = NewTransfer(c)]
  /\ page' = [page EXCEPT ![c] = [state |-> "loading", want |-> Chunks[html],
                                  parts |-> <<>>]]
  /\ swapped' = [swapped EXCEPT ![c] = FALSE]
  /\ UNCHANGED <<file, server, note, raced, late>>

(* The browser keeps no more than it was promised. *)
Received(p, chunk) ==
  IF Len(p.parts) = p.want THEN p
  ELSE [p EXCEPT !.parts = Append(@, chunk),
                 !.state = IF Len(p.parts) + 1 = p.want THEN "loaded" ELSE @]

(* LWS_CALLBACK_HTTP_WRITEABLE: the next chunk of the buffer as it is now. *)
AtEnd(c) == sess[c] >= Chunks[html]

NextChunk(c) ==
  /\ sess' = [sess EXCEPT ![c] = IF @ + 1 = Chunks[html] THEN None ELSE @ + 1]
  /\ page' = [page EXCEPT ![c] = Received(@, Chunk(html, sess[c]))]

HttpWritable(c) ==
  /\ phase = "serving" /\ sess[c] # None
  /\ IF AtEnd(c)
     THEN sess' = [sess EXCEPT ![c] = None] /\ UNCHANGED page
     ELSE NextChunk(c)
  /\ UNCHANGED <<file, server, note, remembered>>

(* The page has loaded and its script opens the WebSocket (ESTABLISHED).   *)
Connect(c) ==
  /\ phase = "serving" /\ page[c].state = "loaded"
  /\ page' = [page EXCEPT ![c].state = "connected"]
  /\ late' = [late EXCEPT ![c] = page[c].parts # Whole(html)]
  /\ UNCHANGED <<file, server, sess, note, raced, swapped>>

(* The notification arrives: location.reload(), which closes the socket.   *)
Reload(c) ==
  /\ page[c].state = "connected" /\ note[c]
  /\ page' = [page EXCEPT ![c].state = "reloading"]
  /\ note' = [note EXCEPT ![c] = FALSE]
  /\ UNCHANGED <<file, server, sess, remembered>>

(* The page is closed, or its load given up.  Its connections end; that of *)
(* a transfer is seen by the server later (LWS_CALLBACK_CLOSED_HTTP).      *)
Leave(c) ==
  /\ page[c].state # "closed"
  /\ page' = [page EXCEPT ![c] = Blank]
  /\ note' = [note EXCEPT ![c] = FALSE]
  /\ UNCHANGED <<file, server, sess, remembered>>

ClosedHttp(c) ==
  /\ phase = "serving" /\ sess[c] # None /\ page[c].state = "closed"
  /\ sess' = [sess EXCEPT ![c] = None]
  /\ UNCHANGED <<file, server, page, note, remembered>>

-----------------------------------------------------------------------------
Serve(c) == Get(c) \/ HttpWritable(c) \/ Connect(c) \/ ClosedHttp(c)

ReloadNext ==
  \/ Edit \/ FirstRead \/ Stamp \/ Check \/ ReRead
  \/ \E c \in Browsers : Serve(c) \/ Reload(c) \/ Leave(c)

ReloadSpec == ReloadInit /\ [][ReloadNext]_rvars

(* The loop of run never stops, lws serves every socket that is ready, and *)
(* a browser acts on a notification; the end of a connection is reported   *)
(* even to a server whose client is back already.  Nobody has to ask, edit *)
(* or leave.                                                               *)
Fairness ==
  /\ WF_rvars(FirstRead) /\ WF_rvars(Stamp) /\ WF_rvars(Check) /\ WF_rvars(ReRead)
  /\ \A c \in Browsers :
       WF_rvars(HttpWritable(c)) /\ SF_rvars(ClosedHttp(c)) /\ WF_rvars(Reload(c))

FairReloadSpec == ReloadSpec /\ Fairness

-----------------------------------------------------------------------------
(* Properties. *)

ReloadTypeOK ==
  /\ file \in Version /\ phase \in Phases
  /\ html \in Version /\ lastMod \in Version /\ mod \in Version
  /\ \A c \in Browsers :
       /\ sess[c] \in Nat \cup {None}
       /\ page[c].state \in {"closed", "loading", "loaded", "connected", "reloading"}
       /\ Len(page[c].parts) =< page[c].want
  /\ note \in [Browsers -> BOOLEAN] /\ raced \in BOOLEAN
  /\ swapped \in [Browsers -> BOOLEAN] /\ late \in [Browsers -> BOOLEAN]

(* A page that has loaded is one version of the file, first chunk to last, *)
(* and a transfer that has ended has delivered what it promised, unless    *)
(* the buffer was replaced under it: then the page is glued together from  *)
(* two versions, or waits for bytes that no longer exist.                  *)
PagesAreWhole ==
  \A c \in Browsers : ~swapped[c] =>
    /\ page[c].state \in {"loaded", "connected"} =>
         \E v \in Version : page[c].parts = Whole(v)
    /\ page[c].state = "loading" => sess[c] # None

(* No time is written down for content older than it: an edit while        *)
(* checkLiveReload reads the file is found by the next check.  The first   *)
(* read of the file is the exception (run).                                *)
EditsArrive == [](~raced) => <>[](html = file)

(* A page that was connected when the buffer was replaced does not stay    *)
(* what it was; one that connected too late to be told waits for the next  *)
(* edit.                                                                   *)
StalePagesReload ==
  \A c \in Browsers :
    (page[c].state = "connected" /\ page[c].parts # Whole(html) /\ ~late[c])
      ~> page[c].state # "connected"

(* web_server.cpp, checkLiveReload: "File changed — re-read it".           *)
ChangesAreRead == <>[](html = file)
=============================================================================
