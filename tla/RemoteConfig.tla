---------------------------- MODULE RemoteConfig ----------------------------
(***************************************************************************)
(* Flags, the versioned remote config and the in-app messages of an app of *)
(* apps/custom-apps, edited in the panel and read by a page that embeds    *)
(* sdk.js: it learns from its heartbeat that something changed and fetches *)
(* it.  One flag key, one device; what the page holds is compared with     *)
(* what the panel has for it.                                              *)
(***************************************************************************)
EXTENDS Naturals, FiniteSets

CONSTANTS
    Editors,    \* requests of the panel
    Fetches,    \* requests of the page that may be in flight at once
    Msgs,       \* messages
    None,       \* the absent value
    MaxVersion, \* bound: versions of the config
    MaxEdits,   \* bound: edits of the panel
    MaxLost,    \* bound: answers lost, and pages loaded again
    MaxTime,    \* bound: the clock stops there
    Duties      \* bound: what the panel edits, of "config", "flags", "messages"

VARIABLES now,      \* the clock
          history,  \* table config_versions: the document and the base_version of each
          schema,   \* apps.config_schema
          flags,    \* table flags: the value at each target
          channel,  \* installations.channel of the device
          msgs,     \* table messages: target and window
          receipts, \* table message_receipts of the device
          page,     \* the page: remote, configTag, messageList, messagesTag
          beat,     \* its heartbeat: the tags answered
          fetch,    \* its requests
          lost, edits, req  \* counters of the bounds; the editors' requests

panel == <<history, schema, flags, channel, msgs, edits, req>>
device == <<page, beat, fetch, lost>>
vars == <<now, receipts, panel, device>>

Times == 0 .. MaxTime
Versions == 1 .. MaxVersion
Docs == {"loose", "strict"}
Schemas == {"none", "strict"}
Channels == {"stable", "beta"}
Targets == {"app", "here"} \cup Channels
Values == {"on", "off"}
Row == [doc : Docs, base : 0 .. MaxVersion \cup {None}]

ConfigAssumption ==
    /\ MaxVersion \in Nat /\ MaxEdits \in Nat /\ MaxLost \in Nat /\ MaxTime \in Nat
    /\ None \notin Row

Msg == [target : Targets, starts : Times, ends : Times \cup {None}]
\* What GET /config and GET /messages answer; its ETag stands for it.
Config == [flag : Values \cup {None}, version : 0 .. MaxVersion]
Shown == [seen : SUBSET Msgs, unseen : SUBSET Msgs]
Nothing == [seen |-> {}, unseen |-> {}]
Page == [config : Config \cup {None}, configTag : Config \cup {None},
         list : Shown, listTag : Shown \cup {None}]
NewPage == [config |-> None, configTag |-> None, list |-> Nothing, listTag |-> None]
Beat == [at : {"idle", "sent", "answered"}, config : Config \cup {None}, messages : Shown \cup {None}]
NoBeat == [at |-> "idle", config |-> None, messages |-> None]
Req == [at : {"none", "schema", "read", "insert", "flag"}, row : Row \cup {None},
        schema : Schemas, version : 0 .. MaxVersion + 1]
NoReq == [at |-> "none", row |-> None, schema |-> "none", version |-> 0]
Fetch == [at : {"idle", "sent", "answered"}, what : {"config", "messages"},
          sent : Config \cup Shown \cup {None}, answer : Config \cup Shown \cup {None}]
NoFetch == [at |-> "idle", what |-> "config", sent |-> None, answer |-> None]

TypeOK ==
    /\ now \in Times
    /\ history \in [Versions -> Row \cup {None}] /\ schema \in Schemas
    /\ flags \in [Targets -> Values \cup {None}] /\ channel \in Channels
    /\ msgs \in [Msgs -> Msg \cup {None}] /\ receipts \in SUBSET Msgs
    /\ page \in Page
    /\ beat \in Beat
    /\ fetch \in [Fetches -> Fetch]
    /\ lost \in 0 .. MaxLost /\ edits \in 0 .. MaxEdits
    /\ req \in [Editors -> Req]

Edit(what) == what \in Duties /\ edits < MaxEdits /\ edits' = edits + 1
End(e) == req' = [req EXCEPT ![e] = NoReq]

-----------------------------------------------------------------------------
\* currentConfig: the highest version, or an empty version 0.
Current == Cardinality({v \in Versions : history[v] # None})

\* validateJson, as far as it matters here: one of the documents fails the schema.
Conforms(doc, s) == s = "none" \/ doc = "strict"

\* PUT /apps/:id/config reads the app and the current version, and checks base_version and the
\* document against the schema it carries, or the app's.
BeginPut(e) ==
    /\ req[e].at = "none" /\ Edit("config")
    /\ \E doc \in Docs, s \in Schemas, base \in {None, Current} :
        /\ Conforms(doc, s)
        /\ req' = [req EXCEPT ![e] = [NoReq EXCEPT !.at = IF s = schema THEN "read" ELSE "schema",
                                         !.row = [doc |-> doc, base |-> base], !.schema = s]]
    /\ UNCHANGED <<now, receipts, history, schema, flags, channel, msgs, device>>

\* A schema that changed is saved first.
SaveSchema(e) ==
    /\ req[e].at = "schema"
    /\ schema' = req[e].schema
    /\ req' = [req EXCEPT ![e].at = "read"]
    /\ UNCHANGED <<now, receipts, history, flags, channel, msgs, edits, device>>

\* POST .../history/:version/restore checks an old version against the schema.
BeginRestore(e) ==
    /\ req[e].at = "none" /\ Edit("config")
    /\ \E v \in Versions :
        /\ history[v] # None /\ Conforms(history[v].doc, schema)
        /\ req' = [req EXCEPT ![e] = [NoReq EXCEPT !.at = "read", !.row = [doc |-> history[v].doc, base |-> None]]]
    /\ UNCHANGED <<now, receipts, history, schema, flags, channel, msgs, device>>

\* publishVersion reads the current version again,
ReadVersion(e) ==
    /\ req[e].at = "read"
    /\ req' = [req EXCEPT ![e].at = "insert", ![e].version = Current + 1]
    /\ UNCHANGED <<now, receipts, history, schema, flags, channel, msgs, edits, device>>

FaultyTaken(v) == v > MaxVersion

\* The primary key (app, version) refuses the second of two.
Taken(v) == v > MaxVersion \/ history[v] # None

\* and inserts the next, or answers 409.
Publish(e) ==
    /\ req[e].at = "insert"
    /\ history' = IF Taken(req[e].version) THEN history
                  ELSE [history EXCEPT ![req[e].version] = req[e].row]
    /\ End(e)
    /\ UNCHANGED <<now, receipts, schema, flags, channel, msgs, edits, device>>

-----------------------------------------------------------------------------
\* POST /apps/:id/flags inserts a value at a target that has none, PATCH changes it, DELETE removes it.
SetFlag ==
    /\ Edit("flags")
    /\ \E t \in Targets, v \in Values \cup {None} : v # flags[t] /\ flags' = [flags EXCEPT ![t] = v]
    /\ UNCHANGED <<now, receipts, history, schema, channel, msgs, req, device>>

\* PATCH /installations/:id moves the device to another channel.
SetChannel ==
    /\ Edit("flags")
    /\ channel' \in Channels \ {channel}
    /\ UNCHANGED <<now, receipts, history, schema, flags, msgs, req, device>>

\* POST /apps/:id/messages, or PATCH of one: the window ends after it starts.
SaveMessage ==
    /\ Edit("messages")
    /\ \E m \in Msgs, t \in {"app", "beta", "here"}, from \in Times, to \in Times \cup {None} :
        /\ to # None => from < to
        /\ msgs[m] # None => t = msgs[m].target
        /\ msgs' = [msgs EXCEPT ![m] = [target |-> t, starts |-> from, ends |-> to]]
    /\ UNCHANGED <<now, receipts, history, schema, flags, channel, req, device>>

\* DELETE /messages/:id, and its receipts.
DeleteMessage ==
    /\ Edit("messages")
    /\ \E m \in Msgs : msgs[m] # None /\ msgs' = [msgs EXCEPT ![m] = None] /\ receipts' = receipts \ {m}
    /\ UNCHANGED <<now, history, schema, flags, channel, req, device>>

-----------------------------------------------------------------------------
Applies(t) == t \in {"app", channel, "here"}

FaultyResolved == IF flags["here"] # None THEN flags["here"] ELSE "app"

\* resolveFlags: installation, then channel, then app.
Resolved ==
    IF flags["here"] # None THEN flags["here"]
    ELSE IF flags[channel] # None THEN flags[channel] ELSE flags["app"]

ResolvedConfig == [flag |-> Resolved, version |-> Current]

Running(m) == msgs[m] # None /\ msgs[m].starts <= now /\ (msgs[m].ends = None \/ msgs[m].ends > now)

\* activeMessages: those running now for this device, each with whether it confirmed it.
Active ==
    LET aimed == {m \in Msgs : Running(m) /\ Applies(msgs[m].target)}
    IN [seen |-> aimed \cap receipts, unseen |-> aimed \ receipts]

\* What the page reads of an ETag: its server exposes no header, so a page of another origin sees none.
Exposed(tag) == None

-----------------------------------------------------------------------------
\* The page sends a heartbeat every interval;
SendBeat ==
    /\ beat.at = "idle" /\ beat' = [beat EXCEPT !.at = "sent"]
    /\ UNCHANGED <<now, receipts, panel, page, fetch, lost>>

\* the answer carries the tags of what the panel has then.
AnswerBeat ==
    /\ beat.at = "sent"
    /\ beat' = [at |-> "answered", config |-> ResolvedConfig, messages |-> Active]
    /\ UNCHANGED <<now, receipts, panel, page, fetch, lost>>

FaultyWanted(what) ==
    IF what = "config" THEN page.config = None \/ page.config.version # beat.config.version
    ELSE beat.messages # page.listTag

FaultyWantedUnseen(what) ==
    IF what = "config" THEN beat.config # page.configTag
    ELSE beat.messages.unseen \ page.list.unseen # {}

\* apply: a tag that is not the one the page has is fetched.
Wanted(what) == IF what = "config" THEN beat.config # page.configTag ELSE beat.messages # page.listTag

ApplyBeat ==
    /\ beat.at = "answered"
    /\ LET wanted == {what \in {"config", "messages"} : Wanted(what)}
           free == {f \in Fetches : fetch[f].at = "idle"}
       IN \E into \in [wanted -> free] :
            /\ \A a, b \in wanted : into[a] = into[b] => a = b
            /\ fetch' = [f \in Fetches |->
                   IF \E what \in wanted : into[what] = f
                   THEN LET what == CHOOSE w \in wanted : into[w] = f IN
                        [at |-> "sent", what |-> what, answer |-> None,
                         sent |-> IF what = "config" THEN page.configTag ELSE page.listTag]
                   ELSE fetch[f]]
    /\ beat' = NoBeat
    /\ UNCHANGED <<now, receipts, panel, page, lost>>

\* GET /config and GET /messages, with If-None-Match; no body when nothing changed.
Answer(f) ==
    /\ fetch[f].at = "sent"
    /\ LET have == IF fetch[f].what = "config" THEN ResolvedConfig ELSE Active
       IN fetch' = [fetch EXCEPT ![f].at = "answered", ![f].answer = IF fetch[f].sent = have THEN None ELSE have]
    /\ UNCHANGED <<now, receipts, panel, page, beat, lost>>

\* The page takes what came, in whatever order it comes.
ApplyFetch(f) ==
    /\ fetch[f].at = "answered"
    /\ LET it == fetch[f].answer IN
        page' = IF it = None THEN page
                ELSE IF fetch[f].what = "config"
                     THEN [page EXCEPT !.config = it, !.configTag = Exposed(it)]
                     ELSE [page EXCEPT !.list = it, !.listTag = Exposed(it)]
    /\ fetch' = [fetch EXCEPT ![f] = NoFetch]
    /\ UNCHANGED <<now, receipts, panel, beat, lost>>

\* An answer is lost: the page swallows it and waits for the next heartbeat.
Lose ==
    /\ lost < MaxLost /\ lost' = lost + 1
    /\ \/ beat.at # "idle" /\ beat' = NoBeat /\ UNCHANGED fetch
       \/ \E f \in Fetches :
            fetch[f].at # "idle" /\ fetch' = [fetch EXCEPT ![f] = NoFetch] /\ UNCHANGED beat
    /\ UNCHANGED <<now, receipts, panel, page>>

\* The page is loaded again: the config and its tag come back from localStorage, the rest is new.
Reload ==
    /\ lost < MaxLost /\ lost' = lost + 1
    /\ page' = [page EXCEPT !.list = Nothing, !.listTag = None]
    /\ beat' = NoBeat /\ fetch' = [f \in Fetches |-> NoFetch]
    /\ UNCHANGED <<now, receipts, panel>>

\* markSeen: POST /messages/:id/seen, once; the page marks its copy.
MarkSeen(m) ==
    /\ m \in page.list.unseen /\ msgs[m] # None
    /\ receipts' = receipts \cup {m}
    /\ page' = [page EXCEPT !.list = [seen |-> @.seen \cup {m}, unseen |-> @.unseen \ {m}]]
    /\ UNCHANGED <<now, panel, beat, fetch, lost>>

Tick ==
    /\ now < MaxTime /\ "messages" \in Duties /\ now' = now + 1
    /\ UNCHANGED <<receipts, panel, device>>

-----------------------------------------------------------------------------
Init ==
    /\ now = 0
    /\ history = [v \in Versions |-> None] /\ schema = "none"
    /\ flags = [t \in Targets |-> None] /\ channel = "stable"
    /\ msgs = [m \in Msgs |-> None] /\ receipts = {}
    /\ page = NewPage /\ beat = NoBeat /\ fetch = [f \in Fetches |-> NoFetch]
    /\ lost = 0 /\ edits = 0 /\ req = [e \in Editors |-> NoReq]

Next ==
    \/ \E e \in Editors : BeginPut(e) \/ SaveSchema(e) \/ BeginRestore(e) \/ ReadVersion(e) \/ Publish(e)
    \/ SetFlag \/ SetChannel \/ SaveMessage \/ DeleteMessage
    \/ SendBeat \/ AnswerBeat \/ ApplyBeat \/ Lose \/ Reload \/ Tick
    \/ \E f \in Fetches : Answer(f) \/ ApplyFetch(f)
    \/ \E m \in Msgs : MarkSeen(m)

Spec == Init /\ [][Next]_vars

\* The page's timer and the network work, but for the answers lost; editors' requests end.
FairSpec ==
    /\ Spec /\ WF_vars(SendBeat) /\ WF_vars(AnswerBeat) /\ WF_vars(ApplyBeat)
    /\ \A f \in Fetches : WF_vars(Answer(f)) /\ WF_vars(ApplyFetch(f))
    /\ \A e \in Editors : WF_vars(SaveSchema(e)) /\ WF_vars(ReadVersion(e)) /\ WF_vars(Publish(e))

-----------------------------------------------------------------------------
\* The history only grows: a version, once saved, never changes, and they are consecutive.
HistoryGrows == \A v \in Versions :
    /\ history[v] # None => history'[v] = history[v]
    /\ history'[v] # None => v = 1 \/ history'[v - 1] # None

\* What was saved over base_version follows it: nothing came in between.
BaseIsKept == \A v \in Versions :
    history[v] # None /\ history[v].base # None => history[v].base = v - 1

\* With no save in flight, the current document satisfies the schema shown with it.
CurrentConforms == (\A e \in Editors : req[e].at = "none") /\ Current > 0 =>
    Conforms(history[Current].doc, schema)

\* The page ends up with the flags, the config and the messages the panel has for it, whatever
\* answers were lost or came out of order.
PageCatchesUp == page.config = ResolvedConfig /\ page.list = Active

\* The page fetches the config when it is not the one it has.
FetchedOnChange == [][\A f \in Fetches :
    fetch[f].at = "idle" /\ fetch'[f].at = "sent" /\ fetch'[f].what = "config" => beat.config # page.config]_fetch

=============================================================================
