--------------------------- MODULE ServerSettings ---------------------------
(***************************************************************************)
(* The settings: the TOML file's, the console's changes persisted key by   *)
(* key (api_console.py, put_config), the token codec built from them, and  *)
(* the copy a console shows in its dialog and sends back whole.  The       *)
(* server may be killed between two keys; it is restarted on the file as   *)
(* it then is and on the settings table.                                   *)
(*                                                                         *)
(* Two of the ten runtime keys are modelled: one a change of which has     *)
(* more to do (tokenizer), and one whose conversion can fail (ttft_ms).    *)
(* One console's page is modelled; PUTs also come from elsewhere.          *)
(***************************************************************************)
EXTENDS Naturals, SequencesExt

CONSTANTS
  PutBound,     \* bound: PUTs
  RestartBound, \* bound: restarts
  AskBound      \* bound: requests of the page in flight

ASSUME BoundsAssumption == {PutBound, RestartBound, AskBound} \subseteq Nat

RuntimeKeys == {"tokenizer", "ttft_ms"}

\* What a key may be given; str() takes anything, int() not.
Given == [tokenizer |-> {"o200k_base", "unknown", "approx"}, ttft_ms |-> {"0", "1", "bad"}]

\* Fault: what cannot be converted is taken as it is.
CoercesAnything(key, value) == TRUE

\* coerce_runtime_value() does not raise
Coerces(key, value) == ~(key = "ttft_ms" /\ value = "bad")

Values(key) == Given[key] \ {"bad"}
Settings    == [tokenizer : Values("tokenizer"), ttft_ms : Values("ttft_ms")]
Unset       == "unset"
NoSettings  == [key \in RuntimeKeys |-> Unset]

\* TokenCodec(): an encoding that cannot be loaded is approximated.
CodecOf(tokenizer) == IF tokenizer = "unknown" THEN "approx" ELSE tokenizer

Entry(key, value) == [key |-> key, value |-> value]
Entries == {Entry("host", "1")}
             \cup UNION {{Entry(key, v) : v \in Given[key]} : key \in RuntimeKeys}

\* The bodies of a PUT: the keys in any order, each once.
Bodies == {<<e>> : e \in Entries}
            \cup {<<p[1], p[2]>> : p \in {q \in Entries \X Entries : q[1].key # q[2].key}}

VARIABLES
  \* the server
  file,       \* the TOML file's settings, as they were read
  overrides,  \* the settings table
  settings,   \* hub.settings
  codec,      \* hub.codec.encoding_name
  put,        \* the PUT under way: its entries left, the keys applied
  \* the page
  online,     \* its WebSocket is open
  inbox,      \* the messages under way to it
  asks,       \* its requests in flight, with their answers
  shown,      \* S.settings, with the version it was then
  dialog,     \* what the open settings dialog was filled with
  \* counters and history
  puts, restarts,
  version,    \* how often settings has changed
  skewed,     \* a PUT was refused after it had set the tokenizer
  silent,     \* a PUT was refused after it had set something
  newest      \* the newest version the page has shown

server == <<file, overrides, settings, codec, put>>
page   == <<online, inbox, asks, shown, dialog>>
notes  == <<puts, restarts, version, skewed, silent, newest>>
vars   == <<server, page, notes>>

NoPut == [busy |-> FALSE, todo |-> <<>>, applied |-> {}]
Idle  == put = NoPut

\* What is under way to the page and is not a snapshot of the settings: the
\* message "config" or the GET it leads to, and the page's own PUT.
Refresh == [op |-> "refresh", version |-> 0, settings |-> NoSettings]
Saving  == [op |-> "saving", version |-> 0, settings |-> NoSettings]

\* create_app(): what was persisted wins over the file.
Restored(f, saved) == [key \in RuntimeKeys |-> IF saved[key] = Unset THEN f[key] ELSE saved[key]]

Init ==
  /\ file \in Settings
  /\ overrides = NoSettings
  /\ settings = file /\ codec = CodecOf(file.tokenizer) /\ put = NoPut
  /\ online = FALSE /\ inbox = <<>> /\ asks = <<>>
  /\ shown = [op |-> "settings", version |-> 0, settings |-> file] /\ dialog = NoSettings
  /\ puts = 0 /\ restarts = 0 /\ version = 0
  /\ skewed = FALSE /\ silent = FALSE /\ newest = 0

-----------------------------------------------------------------------------
(* put_config(): one handler, without an await from the first key on        *)

Begin(body) ==
  /\ Idle /\ puts < PutBound
  /\ puts' = puts + 1
  /\ put' = [busy |-> TRUE, todo |-> body, applied |-> {}]
  /\ UNCHANGED <<file, overrides, settings, codec, restarts, version, skewed, silent, newest>>

\* From elsewhere: another console, a script.
Put(body) == Begin(body) /\ UNCHANGED page

Accepts(e) == e.key \in RuntimeKeys /\ Coerces(e.key, e.value)

\* Fault: what the file says as well is not persisted.
PersistNews(e) == overrides' = IF file[e.key] = e.value THEN overrides
                               ELSE [overrides EXCEPT ![e.key] = e.value]

\* set_setting(), with a commit of its own
Persist(e) == overrides' = [overrides EXCEPT ![e.key] = e.value]

Apply ==
  /\ put.todo # <<>> /\ Accepts(Head(put.todo))
  /\ LET e == Head(put.todo)
     IN  /\ settings' = [settings EXCEPT ![e.key] = e.value]
         /\ Persist(e)
         /\ put' = [put EXCEPT !.todo = Tail(@), !.applied = @ \cup {e.key}]
  /\ version' = version + 1
  /\ UNCHANGED <<file, codec, page, puts, restarts, skewed, silent, newest>>

\* 422: what came before in the body stays, the codec is not rebuilt and nobody is told.
Refuse ==
  /\ put.todo # <<>> /\ ~Accepts(Head(put.todo))
  /\ put' = NoPut
  /\ skewed' = (skewed \/ "tokenizer" \in put.applied)
  /\ silent' = (silent \/ put.applied # {})
  /\ UNCHANGED <<file, overrides, settings, codec, page, puts, restarts, version, newest>>

\* public_dict()
Current == [op |-> "settings", version |-> version, settings |-> settings]

\* Fault: only a codec that can be loaded is put in place.
RebuildLoaded ==
  codec' = IF "tokenizer" \in put.applied /\ CodecOf(settings.tokenizer) = settings.tokenizer
             THEN settings.tokenizer ELSE codec

Rebuild == codec' = IF "tokenizer" \in put.applied THEN CodecOf(settings.tokenizer) ELSE codec

\* The consoles are told, and the page's own PUT is answered with the settings.
Done ==
  /\ ~Idle /\ put.todo = <<>>
  /\ put' = NoPut
  /\ Rebuild
  /\ inbox' = IF online THEN Append(inbox, Refresh) ELSE inbox
  /\ asks' = [i \in DOMAIN asks |-> IF asks[i] = Saving THEN Current ELSE asks[i]]
  /\ skewed' = (skewed /\ "tokenizer" \notin put.applied)
  /\ silent' = FALSE
  /\ UNCHANGED <<file, overrides, settings, online, shown, dialog, puts, restarts, version,
                 newest>>

\* The process is killed at any moment, the file may be edited while it is down.
Restart(f) ==
  /\ restarts < RestartBound
  /\ restarts' = restarts + 1 /\ version' = version + 1
  /\ file' = f
  /\ settings' = Restored(f, overrides)
  /\ codec' = CodecOf(settings'.tokenizer)
  /\ put' = NoPut
  /\ online' = FALSE /\ inbox' = <<>> /\ asks' = <<>>
  /\ skewed' = FALSE /\ silent' = FALSE
  /\ UNCHANGED <<overrides, shown, dialog, puts, newest>>

-----------------------------------------------------------------------------
(* The page                                                                 *)

\* console_ws() greets with the settings.
Connect ==
  /\ Idle /\ ~online
  /\ online' = TRUE /\ inbox' = <<Current>>
  /\ UNCHANGED <<server, asks, shown, dialog, notes>>

Lose ==
  /\ online
  /\ online' = FALSE /\ inbox' = <<>>
  /\ UNCHANGED <<server, asks, shown, dialog, notes>>

Show(snapshot) ==
  /\ shown' = snapshot
  /\ newest' = Max({newest, snapshot.version})
  /\ UNCHANGED <<server, online, dialog, puts, restarts, version, skewed, silent>>

OnHello ==
  /\ inbox # <<>> /\ Head(inbox) # Refresh
  /\ Show(Head(inbox)) /\ inbox' = Tail(inbox)
  /\ UNCHANGED asks

\* Fault: a refresh under way will do.
OnConfigOnce ==
  /\ inbox # <<>> /\ Head(inbox) = Refresh
  /\ Len(asks) < AskBound
  /\ asks' = IF asks = <<>> THEN <<Refresh>> ELSE asks
  /\ inbox' = Tail(inbox)
  /\ UNCHANGED <<server, online, shown, dialog, notes>>

\* refreshState()
OnConfig ==
  /\ inbox # <<>> /\ Head(inbox) = Refresh
  /\ Len(asks) < AskBound
  /\ asks' = Append(asks, Refresh)
  /\ inbox' = Tail(inbox)
  /\ UNCHANGED <<server, online, shown, dialog, notes>>

\* get_state()
Serve(i) ==
  /\ Idle /\ asks[i] = Refresh
  /\ asks' = [asks EXCEPT ![i] = Current]
  /\ UNCHANGED <<server, online, inbox, shown, dialog, notes>>

OnAnswer(i) ==
  /\ asks[i] \notin {Refresh, Saving}
  /\ Show(asks[i]) /\ asks' = RemoveAt(asks, i)
  /\ UNCHANGED inbox

OpenSettings ==
  /\ dialog = NoSettings
  /\ dialog' = shown.settings
  /\ UNCHANGED <<server, online, inbox, asks, shown, notes>>

\* saveSettings(): the whole dialog, one field of it edited or none.  It is served
\* at once: that it waits changes nothing in it.
SaveSettings(key, value) ==
  /\ dialog # NoSettings /\ Len(asks) < AskBound
  /\ LET saved == [dialog EXCEPT ![key] = value]
     IN Begin(<<Entry("tokenizer", saved.tokenizer), Entry("ttft_ms", saved.ttft_ms)>>)
  /\ dialog' = NoSettings
  /\ asks' = Append(asks, Saving)
  /\ UNCHANGED <<online, inbox, shown>>

-----------------------------------------------------------------------------
PutConfig == (\E body \in Bodies : Put(body)) \/ Apply \/ Refuse \/ Done

Page ==
  \/ Connect \/ Lose \/ OnHello \/ OnConfig
  \/ \E i \in DOMAIN asks : Serve(i) \/ OnAnswer(i)
  \/ OpenSettings
  \/ \E key \in RuntimeKeys : \E value \in Values(key) : SaveSettings(key, value)

Next == PutConfig \/ Page \/ \E f \in Settings : Restart(f)

Spec == Init /\ [][Next]_vars

-----------------------------------------------------------------------------
\* The types of the settings on file, in the table and in force, of the PUT under
\* way and of the page's copies: nothing the conversion refuses gets into any.
TypeOK ==
  LET Snapshots == [op : {"settings"}, version : 0..version, settings : Settings]
  IN  /\ {file, settings} \subseteq Settings
      /\ \A key \in RuntimeKeys : overrides[key] \in Values(key) \cup {Unset}
      /\ codec \in {"o200k_base", "approx"}
      /\ Len(put.todo) <= 2 /\ put.applied \subseteq RuntimeKeys
      /\ online \in BOOLEAN
      /\ Range(inbox) \subseteq Snapshots \cup {Refresh}
      /\ Range(asks) \subseteq Snapshots \cup {Refresh, Saving} /\ Len(asks) <= AskBound
      /\ shown \in Snapshots /\ dialog \in Settings \cup {NoSettings}
      /\ puts \in 0..PutBound /\ restarts \in 0..RestartBound
      /\ {skewed, silent} \subseteq BOOLEAN /\ newest \in 0..version

\* A restart on the same file brings the settings that were in force, wherever the
\* process is killed: between two keys of a PUT, or after one that was refused in the
\* middle and has left the keys before it applied.
RestartKeeps == Restored(file, overrides) = settings

\* The codec in use is that of the tokenizer set, or of what it falls back to; only a
\* PUT refused after it had set the tokenizer leaves them apart, and then until the
\* next accepted PUT of it or the next start.
CodecInStep == Idle /\ ~skewed => codec = CodecOf(settings.tokenizer)

\* When nothing is under way, the settings a connected console shows, and would send
\* back whole from its dialog, are the ones in force.  (Excepted are the keys a
\* refused PUT has set, which nobody is told of, and two answers crossing each other.)
SettingsShown ==
  online /\ Idle /\ inbox = <<>> /\ asks = <<>> /\ ~silent /\ shown.version = newest
    => shown.settings = settings

=============================================================================
