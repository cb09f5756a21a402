------------------------ MODULE ServerSettingsProofs ------------------------
(* Theorems about ServerSettings, for any number of PUTs, restarts and      *)
(* requests of the page.                                                    *)
EXTENDS ServerSettings, SequenceTheorems, TLAPS
\* RemoveAt leaves a sequence of the other elements.
LEMMA Removed ==
  ASSUME NEW S, NEW s \in Seq(S), NEW i \in 1..Len(s)
  PROVE  /\ RemoveAt(s, i) \in Seq(S)
         /\ Len(RemoveAt(s, i)) = Len(s) - 1
         /\ \A j \in 1..Len(s) : j # i => \E k \in 1..Len(s) - 1 : RemoveAt(s, i)[k] = s[j]
         /\ \A k \in 1..Len(s) - 1 : \E j \in 1..Len(s) : RemoveAt(s, i)[k] = s[j]
<1> DEFINE before == SubSeq(s, 1, i - 1)
           after == SubSeq(s, i + 1, Len(s))
<1>n. Len(s) \in Nat /\ i \in Int
  BY LenProperties
<1>1. /\ before \in Seq(S) /\ Len(before) = i - 1
      /\ \A k \in 1..i - 1 : before[k] = s[k]
  <2>1. \A k \in 1..i - 1 : s[k] \in S
    BY <1>n, ElementOfSeq
  <2> QED
    BY <1>n, <2>1, SubSeqProperties
<1>2. /\ after \in Seq(S) /\ Len(after) = Len(s) - i
      /\ \A k \in 1..Len(s) - i : after[k] = s[i + k]
  <2>1. \A k \in i + 1..Len(s) : s[k] \in S
    BY <1>n, ElementOfSeq
  <2> QED
    BY <1>n, <2>1, SubSeqProperties
<1>3. /\ before \o after \in Seq(S) /\ Len(before \o after) = Len(s) - 1
      /\ \A k \in 1..Len(s) - 1 : (before \o after)[k] = IF k < i THEN s[k] ELSE s[k + 1]
  <2> HIDE DEF before, after
  <2> QED
  BY <1>n, <1>1, <1>2, ConcatProperties
<1>4. RemoveAt(s, i) = before \o after
  BY DEF RemoveAt
<1> HIDE DEF before, after
<1>5. ASSUME NEW j \in 1..Len(s), j # i
      PROVE  \E k \in 1..Len(s) - 1 : RemoveAt(s, i)[k] = s[j]
  <2>1. CASE j < i
    <3>1. j \in 1..Len(s) - 1
      BY <2>1, <1>n
    <3> QED
      BY <2>1, <3>1, <1>3, <1>4
  <2>2. CASE j > i
    <3>1. j - 1 \in 1..Len(s) - 1 /\ ~(j - 1 < i) /\ j - 1 + 1 = j
      BY <2>2, <1>n
    <3> QED
      BY <3>1, <1>3, <1>4
  <2> QED
    BY <1>5, <2>1, <2>2, <1>n
<1>6. ASSUME NEW k \in 1..Len(s) - 1
      PROVE  \E j \in 1..Len(s) : RemoveAt(s, i)[k] = s[j]
  BY <1>n, <1>3, <1>4
<1> QED
  BY <1>3, <1>4, <1>5, <1>6

LEMMA MaxOfTwo ==
  ASSUME NEW a \in Nat, NEW b \in Nat
  PROVE  Max({a, b}) = IF a >= b THEN a ELSE b
<1>1. \E x \in {a, b} : \A y \in {a, b} : x >= y
  OBVIOUS
<1>2. Max({a, b}) \in {a, b} /\ \A y \in {a, b} : Max({a, b}) >= y
  BY <1>1 DEF Max
<1> QED
  BY <1>2

-----------------------------------------------------------------------------
(* The entries of a PUT, the settings and the table                         *)

LEMMA SettingSet ==
  ASSUME NEW s \in Settings, NEW key \in RuntimeKeys, NEW value \in Values(key)
  PROVE  [s EXCEPT ![key] = value] \in Settings
BY DEF Settings, RuntimeKeys

LEMMA Accepted ==
  ASSUME NEW e \in Entries, Accepts(e)
  PROVE  e.key \in RuntimeKeys /\ e.value \in Values(e.key)
BY DEF Entries, Entry, Accepts, Coerces, Values, Given, RuntimeKeys

LEMMA BodyType ==
  ASSUME NEW body \in Bodies
  PROVE  body \in Seq(Entries) /\ Len(body) <= 2
<1>1. CASE \E e \in Entries : body = <<e>>
  BY <1>1
<1>2. CASE \E p \in Entries \X Entries : body = <<p[1], p[2]>>
  BY <1>2
<1> QED
  BY <1>1, <1>2 DEF Bodies

LEMMA DialogType ==
  ASSUME NEW s \in Settings
  PROVE  LET body == <<Entry("tokenizer", s.tokenizer), Entry("ttft_ms", s.ttft_ms)>>
         IN  body \in Seq(Entries) /\ Len(body) <= 2
<1>1. Entry("tokenizer", s.tokenizer) \in Entries
  BY DEF Settings, Entries, Values, Given, RuntimeKeys
<1>2. Entry("ttft_ms", s.ttft_ms) \in Entries
  BY DEF Settings, Entries, Values, Given, RuntimeKeys
<1> QED
  BY <1>1, <1>2

\* The settings table: a value, or nothing, for each key.
Table == [tokenizer : Values("tokenizer") \cup {Unset}, ttft_ms : Values("ttft_ms") \cup {Unset}]

LEMMA TableSet ==
  ASSUME NEW t \in Table, NEW key \in RuntimeKeys, NEW value \in Values(key)
  PROVE  [t EXCEPT ![key] = value] \in Table
BY DEF Table, RuntimeKeys

LEMMA RestoredType ==
  ASSUME NEW f \in Settings, NEW t \in Table
  PROVE  Restored(f, t) \in Settings
<1>1. \A key \in RuntimeKeys : (IF t[key] = Unset THEN f[key] ELSE t[key]) \in Values(key)
  BY DEF Table, Settings, RuntimeKeys
<1> QED
  BY <1>1 DEF Restored, Settings, RuntimeKeys

\* What is set and persisted is what a restart finds.
LEMMA RestoredSet ==
  ASSUME NEW f \in Settings, NEW t \in Table, NEW k \in RuntimeKeys, NEW value \in Values(k)
  PROVE  Restored(f, [t EXCEPT ![k] = value]) = [Restored(f, t) EXCEPT ![k] = value]
<1>1. value # Unset
  BY DEF Values, Given, RuntimeKeys, Unset
<1>2. DOMAIN t = RuntimeKeys
  BY DEF Table, RuntimeKeys
<1> QED
  BY <1>1, <1>2 DEF Restored

LEMMA CodecType ==
  ASSUME NEW s \in Settings
  PROVE  CodecOf(s.tokenizer) \in {"o200k_base", "approx"}
BY DEF Settings, Values, Given, CodecOf

-----------------------------------------------------------------------------
(* The inductive invariant                                                  *)

Puts == [busy : BOOLEAN, todo : Seq(Entries), applied : SUBSET RuntimeKeys]

ServerType ==
  /\ file \in Settings /\ settings \in Settings /\ overrides \in Table
  /\ codec \in {"o200k_base", "approx"}
  /\ put \in Puts /\ Len(put.todo) <= 2
  /\ put.busy \/ put = NoPut

\* The codec follows the tokenizer unless a PUT under way, or one refused, has set it.
CodecFollows ==
  ~skewed /\ "tokenizer" \notin put.applied => codec = CodecOf(settings.tokenizer)

ServerInv == ServerType /\ RestartKeeps /\ CodecFollows

Snapshots == [op : {"settings"}, version : 0..version, settings : Settings]

PageType ==
  /\ online \in BOOLEAN
  /\ inbox \in Seq(Snapshots \cup {Refresh})
  /\ asks \in Seq(Snapshots \cup {Refresh, Saving}) /\ Len(asks) <= AskBound
  /\ shown \in Snapshots /\ dialog \in Settings \cup {NoSettings}

NotesType ==
  /\ puts \in 0..PutBound /\ restarts \in 0..RestartBound
  /\ version \in Nat /\ newest \in 0..version
  /\ skewed \in BOOLEAN /\ silent \in BOOLEAN

\* A snapshot of the current version says what is in force.
True(m) == m.op = "settings" /\ m.version = version => m.settings = settings

\* What will bring the page the current version, or a later one.
Fresh(m) == m.op = "refresh" \/ (m.op = "settings" /\ m.version = version)

\* No copy of the current version differs from what is in force, and a page that is
\* connected has seen that version, unless it is on its way, or a PUT is going on, or
\* one was refused and told nobody.
PageInv ==
  /\ \A i \in 1..Len(inbox) : True(inbox[i])
  /\ \A i \in 1..Len(asks) : True(asks[i])
  /\ True(shown)
  /\ online /\ put.applied = {} /\ ~silent =>
       \/ newest = version
       \/ \E i \in 1..Len(inbox) : Fresh(inbox[i])
       \/ \E i \in 1..Len(asks) : Fresh(asks[i])

Inv == ServerInv /\ PageType /\ NotesType /\ PageInv

LEMMA BoundsNat == PutBound \in Nat /\ RestartBound \in Nat /\ AskBound \in Nat
BY BoundsAssumption

LEMMA InitInv == Init => Inv
<1> SUFFICES ASSUME Init PROVE Inv
  OBVIOUS
<1>1. ServerType
  <2>1. overrides \in Table
    <3>1. [key \in RuntimeKeys |-> Unset] \in Table
      BY DEF Table, RuntimeKeys
    <3> QED
      BY <3>1 DEF Init, NoSettings
  <2>2. put \in Puts /\ Len(put.todo) <= 2
    BY DEF Init, NoPut, Puts
  <2> QED
    BY <2>1, <2>2, CodecType DEF Init, ServerType
<1>2. RestartKeeps
  BY DEF Init, RestartKeeps, Restored, NoSettings, Settings, RuntimeKeys
<1>3. CodecFollows
  BY DEF Init, CodecFollows
<1>4. PageType
  <2>1. shown \in Snapshots
    BY DEF Init, Snapshots
  <2>2. online \in BOOLEAN
    BY DEF Init
  <2>3. \A S : <<>> \in Seq(S) /\ Len(<<>>) = 0
    BY EmptySeq
  <2>4. inbox = <<>> /\ asks = <<>> /\ dialog = NoSettings
    BY DEF Init
  <2> QED
    BY <2>1, <2>2, <2>3, <2>4, BoundsNat DEF PageType
<1>5. NotesType
  <2>1. skewed \in BOOLEAN /\ silent \in BOOLEAN
    BY DEF Init
  <2>2. puts = 0 /\ restarts = 0 /\ version = 0 /\ newest = 0
    BY DEF Init
  <2> QED
    BY <2>1, <2>2, BoundsNat DEF NotesType
<1>6. PageInv
  BY DEF Init, PageInv, True
<1> QED
  BY <1>1, <1>2, <1>3, <1>4, <1>5, <1>6 DEF Inv, ServerInv

\* What the variables of the server keep to, whatever the page does.
LEMMA IdlePut ==
  ASSUME ServerType
  PROVE  Idle <=> ~put.busy
BY DEF ServerType, Idle, NoPut

LEMMA ServerStays ==
  ASSUME Inv, UNCHANGED server, skewed' = skewed
  PROVE  ServerInv'
BY DEF Inv, ServerInv, ServerType, RestartKeeps, CodecFollows, server, Puts

\* A PUT, from elsewhere or from the page, begins.
LEMMA BeginServer ==
  ASSUME Inv, NEW body \in Seq(Entries), Len(body) <= 2, Begin(body)
  PROVE  /\ ServerInv' /\ NotesType'
         /\ put.applied = {} /\ put'.applied = {}
<1> USE DEF Inv, ServerInv
<1>1. put = NoPut /\ put' \in Puts /\ put'.todo = body /\ put'.busy /\ put'.applied = {}
  BY DEF Begin, Idle, Puts
<1>2. ServerType'
  BY <1>1 DEF Begin, ServerType
<1>3. RestartKeeps' /\ CodecFollows'
  BY <1>1 DEF Begin, RestartKeeps, CodecFollows, NoPut
<1>4. NotesType'
  BY BoundsNat DEF Begin, NotesType
<1> QED
  BY <1>1, <1>2, <1>3, <1>4 DEF NoPut

LEMMA PutInv ==
  ASSUME Inv, NEW body \in Bodies, Put(body)
  PROVE  Inv'
<1>1. Begin(body) /\ UNCHANGED page
  BY DEF Put
<1>2. /\ ServerInv' /\ NotesType'
      /\ put.applied = {} /\ put'.applied = {}
  BY <1>1, BodyType, BeginServer
<1>3. UNCHANGED <<version, settings, newest, silent, online, inbox, asks, shown, dialog>>
  BY <1>1 DEF Begin, page
<1>4. PageType' /\ PageInv'
  BY <1>2, <1>3 DEF Inv, PageType, PageInv, Snapshots, True, Fresh
<1> QED
  BY <1>2, <1>4 DEF Inv

LEMMA ApplyInv ==
  ASSUME Inv, Apply
  PROVE  Inv'
<1> USE DEF Inv, ServerInv
<1> DEFINE e == Head(put.todo)
<1>1. put.todo # <<>> /\ Accepts(e) /\ put.todo \in Seq(Entries) /\ Len(put.todo) <= 2
  BY DEF Apply, ServerType, Puts
<1>2. e \in Entries /\ Tail(put.todo) \in Seq(Entries) /\ Len(Tail(put.todo)) <= 2
  BY <1>1, HeadTailProperties
<1>3. e.key \in RuntimeKeys /\ e.value \in Values(e.key)
  BY <1>1, <1>2, Accepted
<1>4. /\ settings' = [settings EXCEPT ![e.key] = e.value]
      /\ overrides' = [overrides EXCEPT ![e.key] = e.value]
      /\ put' = [put EXCEPT !.todo = Tail(put.todo), !.applied = put.applied \cup {e.key}]
      /\ version' = version + 1
      /\ UNCHANGED <<file, codec, skewed, silent, puts, restarts, newest>>
      /\ UNCHANGED <<online, inbox, asks, shown, dialog>>
  BY DEF Apply, Persist, page
<1> HIDE DEF e
<1>5. put.busy
  BY <1>1 DEF ServerType, NoPut
<1>6. /\ put' \in Puts /\ Len(put'.todo) <= 2 /\ put'.busy
      /\ put'.applied = put.applied \cup {e.key}
  BY <1>2, <1>3, <1>4, <1>5 DEF ServerType, Puts
<1>7. ServerType'
  BY <1>3, <1>4, <1>6, SettingSet, TableSet DEF ServerType
<1>8. RestartKeeps'
  <2>1. Restored(file, [overrides EXCEPT ![e.key] = e.value])
          = [Restored(file, overrides) EXCEPT ![e.key] = e.value]
    BY <1>3, RestoredSet DEF ServerType
  <2>2. file' = file /\ overrides' = [overrides EXCEPT ![e.key] = e.value]
    BY <1>4
  <2> QED
    BY <2>1, <2>2, <1>4 DEF RestartKeeps
<1>9. CodecFollows'
  <2> SUFFICES ASSUME ~skewed', "tokenizer" \notin put'.applied
               PROVE  codec' = CodecOf(settings'.tokenizer)
    BY DEF CodecFollows
  <2>1. e.key # "tokenizer" /\ "tokenizer" \notin put.applied
    BY <1>6
  <2>2. settings'.tokenizer = settings.tokenizer
    BY <2>1, <1>3, <1>4 DEF ServerType, Settings, RuntimeKeys
  <2> QED
    BY <2>1, <2>2, <1>4 DEF CodecFollows
<1>10. version \in Nat /\ 0..version \subseteq 0..version'
  BY <1>4 DEF NotesType
<1>11. Snapshots \subseteq Snapshots'
  BY <1>10 DEF Snapshots
<1>12. PageType'
  BY <1>4, <1>11, SeqMonotonic DEF PageType
<1>13. NotesType'
  BY <1>4, <1>10 DEF NotesType
<1>14. PageInv'
  <2>1. \A m : m \in Snapshots \cup {Refresh, Saving} => True(m)'
    BY <1>4, <1>10 DEF Snapshots, Refresh, Saving, True
  <2>2. /\ \A i \in 1..Len(inbox) : inbox[i] \in Snapshots \cup {Refresh, Saving}
        /\ \A i \in 1..Len(asks) : asks[i] \in Snapshots \cup {Refresh, Saving}
    BY ElementOfSeq DEF PageType
  <2>3. put'.applied # {}
    BY <1>6
  <2> QED
    BY <2>1, <2>2, <2>3, <1>4 DEF PageInv, PageType
<1> QED
  BY <1>7, <1>8, <1>9, <1>12, <1>13, <1>14

LEMMA RefuseInv ==
  ASSUME Inv, Refuse
  PROVE  Inv'
<1> USE DEF Inv, ServerInv
<1>1. /\ put' = NoPut
      /\ skewed' = (skewed \/ "tokenizer" \in put.applied)
      /\ silent' = (silent \/ put.applied # {})
      /\ UNCHANGED <<file, overrides, settings, codec, puts, restarts, version, newest>>
      /\ UNCHANGED <<online, inbox, asks, shown, dialog>>
  BY DEF Refuse, page
<1>2. put' \in Puts /\ Len(put'.todo) <= 2 /\ put'.applied = {}
  BY <1>1 DEF NoPut, Puts
<1>3. ServerType' /\ RestartKeeps'
  BY <1>1, <1>2 DEF ServerType, RestartKeeps, NoPut
<1>4. CodecFollows'
  BY <1>1 DEF CodecFollows
<1>5. skewed' \in BOOLEAN /\ silent' \in BOOLEAN
  BY <1>1
<1>6. PageType' /\ NotesType'
  BY <1>1, <1>5 DEF PageType, NotesType, Snapshots
<1>7. PageInv'
  <2>1. ~silent' => ~silent /\ put.applied = {}
    BY <1>1
  <2> QED
    BY <1>1, <2>1 DEF PageInv, True, Fresh
<1> QED
  BY <1>3, <1>4, <1>6, <1>7

LEMMA CurrentType ==
  ASSUME Inv
  PROVE  Current \in Snapshots /\ True(Current) /\ Fresh(Current)
BY DEF Inv, ServerInv, ServerType, NotesType, Current, Snapshots, True, Fresh

LEMMA DoneInv ==
  ASSUME Inv, Done
  PROVE  Inv'
<1> USE DEF Inv, ServerInv
<1>1. /\ put' = NoPut
      /\ codec' = IF "tokenizer" \in put.applied THEN CodecOf(settings.tokenizer) ELSE codec
      /\ inbox' = IF online THEN Append(inbox, Refresh) ELSE inbox
      /\ asks' = [i \in DOMAIN asks |-> IF asks[i] = Saving THEN Current ELSE asks[i]]
      /\ skewed' = (skewed /\ "tokenizer" \notin put.applied)
      /\ silent' = FALSE
      /\ UNCHANGED <<file, overrides, settings, online, shown, dialog, puts, restarts,
                     version, newest>>
  BY DEF Done, Rebuild
<1>2. put' \in Puts /\ Len(put'.todo) <= 2 /\ put'.applied = {}
  BY <1>1 DEF NoPut, Puts
<1>3. ServerType' /\ RestartKeeps'
  BY <1>1, <1>2, CodecType DEF ServerType, RestartKeeps
<1>4. CodecFollows'
  BY <1>1 DEF CodecFollows
<1>5. skewed' \in BOOLEAN /\ silent' \in BOOLEAN
  BY <1>1
<1>6. NotesType'
  BY <1>1, <1>5 DEF NotesType
<1>7. Snapshots' = Snapshots
  BY <1>1 DEF Snapshots
<1>8. /\ asks' \in Seq(Snapshots \cup {Refresh, Saving}) /\ Len(asks') = Len(asks)
      /\ \A i \in 1..Len(asks) : asks'[i] = IF asks[i] = Saving THEN Current ELSE asks[i]
  <2>1. /\ Len(asks) \in Nat /\ DOMAIN asks = 1..Len(asks)
        /\ \A i \in 1..Len(asks) : asks[i] \in Snapshots \cup {Refresh, Saving}
    BY LenProperties, ElementOfSeq DEF PageType
  <2>2. asks' \in [1..Len(asks) -> Snapshots \cup {Refresh, Saving}]
    BY <2>1, <1>1, CurrentType
  <2>3. asks' \in Seq(Snapshots \cup {Refresh, Saving})
    BY <2>1, <2>2, SeqDef
  <2> QED
    BY <2>1, <2>2, <2>3, <1>1, LenProperties
<1>9. /\ inbox' \in Seq(Snapshots \cup {Refresh})
      /\ \A i \in 1..Len(inbox') : \/ i \in 1..Len(inbox) /\ inbox'[i] = inbox[i]
                                  \/ inbox'[i] = Refresh
      /\ online => \E i \in 1..Len(inbox') : inbox'[i] = Refresh
  <2>1. CASE online
    <3>1. inbox' = Append(inbox, Refresh)
      BY <2>1, <1>1
    <3>2. /\ inbox' \in Seq(Snapshots \cup {Refresh}) /\ Len(inbox') = Len(inbox) + 1
          /\ \A i \in 1..Len(inbox) : inbox'[i] = inbox[i]
          /\ inbox'[Len(inbox) + 1] = Refresh
      BY <3>1, AppendProperties DEF PageType
    <3>3. Len(inbox) \in Nat
      BY LenProperties DEF PageType
    <3> QED
      BY <3>2, <3>3
  <2>2. CASE ~online
    BY <2>2, <1>1 DEF PageType
  <2> QED
    BY <2>1, <2>2
<1>10. PageType'
  BY <1>1, <1>7, <1>8, <1>9 DEF PageType
<1>11. PageInv'
  <2>1. True(Current) /\ True(Refresh)
    BY CurrentType DEF True, Refresh
  <2>2. \A i \in 1..Len(inbox') : True(inbox'[i])
    BY <2>1, <1>9 DEF PageInv
  <2>3. \A i \in 1..Len(asks') : True(asks'[i])
    BY <2>1, <1>8 DEF PageInv
  <2>4. (\A i \in 1..Len(inbox) : True(inbox[i]))' /\ (\A i \in 1..Len(asks) : True(asks[i]))'
    BY <1>1, <2>2, <2>3 DEF True
  <2>5. (online => \E i \in 1..Len(inbox) : Fresh(inbox[i]))'
    BY <1>1, <1>9 DEF Fresh, Refresh
  <2>6. True(shown)'
    BY <1>1 DEF PageInv, True
  <2> QED
    BY <2>4, <2>5, <2>6 DEF PageInv
<1> QED
  BY <1>3, <1>4, <1>6, <1>10, <1>11

LEMMA RestartInv ==
  ASSUME Inv, NEW f \in Settings, Restart(f)
  PROVE  Inv'
<1> USE DEF Inv, ServerInv
<1>1. /\ restarts < RestartBound /\ restarts' = restarts + 1 /\ version' = version + 1
      /\ file' = f /\ settings' = Restored(f, overrides)
      /\ codec' = CodecOf(settings'.tokenizer) /\ put' = NoPut
      /\ online' = FALSE /\ inbox' = <<>> /\ asks' = <<>>
      /\ skewed' = FALSE /\ silent' = FALSE
      /\ UNCHANGED <<overrides, shown, dialog, puts, newest>>
  BY DEF Restart
<1>2. settings' \in Settings
  BY <1>1, RestoredType DEF ServerType
<1>3. put' \in Puts /\ Len(put'.todo) <= 2
  BY <1>1 DEF NoPut, Puts
<1>4. ServerType' /\ RestartKeeps' /\ CodecFollows'
  <2>1. codec' \in {"o200k_base", "approx"}
    BY <1>1, <1>2, CodecType
  <2> QED
    BY <1>1, <1>2, <1>3, <2>1 DEF ServerType, RestartKeeps, CodecFollows
<1>5. version \in Nat /\ 0..version \subseteq 0..version'
  BY <1>1 DEF NotesType
<1>6. Snapshots \subseteq Snapshots'
  BY <1>5 DEF Snapshots
<1>7. online' \in BOOLEAN /\ skewed' \in BOOLEAN /\ silent' \in BOOLEAN
  BY <1>1
<1>8. PageType'
  BY <1>1, <1>6, <1>7, EmptySeq, BoundsNat DEF PageType
<1>9. NotesType'
  BY <1>1, <1>5, <1>7, BoundsNat DEF NotesType
<1>10. PageInv'
  <2>1. True(shown)'
    BY <1>1, <1>5 DEF PageType, Snapshots, True
  <2> QED
    BY <1>1, <2>1 DEF PageInv
<1> QED
  BY <1>4, <1>8, <1>9, <1>10

-----------------------------------------------------------------------------
(* The page's steps                                                         *)

\* None of them but SaveSettings touches the server.
LEMMA ConnectInv ==
  ASSUME Inv, Connect
  PROVE  Inv'
<1> USE DEF Inv
<1>1. /\ online' = TRUE /\ inbox' = <<Current>>
      /\ UNCHANGED <<asks, shown, dialog>>
      /\ UNCHANGED <<puts, restarts, version, skewed, silent, newest>>
      /\ UNCHANGED server /\ UNCHANGED settings
  BY DEF Connect, notes, server
<1>2. ServerInv'
  BY <1>1, ServerStays
<1>3. Snapshots' = Snapshots
  BY <1>1 DEF Snapshots
<1>4. inbox' \in Seq(Snapshots \cup {Refresh}) /\ Len(inbox') = 1 /\ inbox'[1] = Current
  BY <1>1, CurrentType
<1>5. PageType' /\ NotesType'
  BY <1>1, <1>3, <1>4 DEF PageType, NotesType
<1>6. PageInv'
  <2>1. (\A i \in 1..Len(inbox) : True(inbox[i]))'
    BY <1>1, <1>4, CurrentType DEF True
  <2>2. (\E i \in 1..Len(inbox) : Fresh(inbox[i]))'
    BY <1>1, <1>4, CurrentType DEF Fresh
  <2> QED
    BY <1>1, <2>1, <2>2 DEF PageInv, True
<1> QED
  BY <1>2, <1>5, <1>6

LEMMA LoseInv ==
  ASSUME Inv, Lose
  PROVE  Inv'
<1> USE DEF Inv
<1>1. /\ online' = FALSE /\ inbox' = <<>>
      /\ UNCHANGED <<asks, shown, dialog>>
      /\ UNCHANGED <<puts, restarts, version, skewed, silent, newest>>
      /\ UNCHANGED server /\ UNCHANGED settings
  BY DEF Lose, notes, server
<1>2. ServerInv'
  BY <1>1, ServerStays
<1>3. Snapshots' = Snapshots
  BY <1>1 DEF Snapshots
<1>4. PageType' /\ NotesType'
  BY <1>1, <1>3, EmptySeq DEF PageType, NotesType
<1>5. PageInv'
  BY <1>1 DEF PageInv, True
<1> QED
  BY <1>2, <1>4, <1>5

\* What Show leaves, for a snapshot that is true: the page has seen its version.
LEMMA Shows ==
  ASSUME Inv, NEW m \in Snapshots, True(m), Show(m)
  PROVE  /\ UNCHANGED <<puts, restarts, version, skewed, silent, online, dialog>>
         /\ UNCHANGED server /\ UNCHANGED <<settings, put>>
         /\ ServerInv' /\ NotesType' /\ Snapshots' = Snapshots
         /\ shown' = m /\ True(shown)'
         /\ newest = version \/ Fresh(m) => newest' = version
<1> USE DEF Inv
<1>1. /\ UNCHANGED <<puts, restarts, version, skewed, silent, online, dialog>>
      /\ UNCHANGED server /\ UNCHANGED <<settings, put>>
      /\ shown' = m /\ newest' = Max({newest, m.version})
  BY DEF Show, server
<1>2. newest \in 0..version /\ m.version \in 0..version /\ version \in Nat
  BY DEF NotesType, Snapshots
<1>3. newest' = IF newest >= m.version THEN newest ELSE m.version
  BY <1>1, <1>2, MaxOfTwo
<1>4. NotesType'
  BY <1>1, <1>2, <1>3 DEF NotesType
<1>5. ServerInv'
  BY <1>1, ServerStays
<1>6. newest = version \/ Fresh(m) => newest' = version
  BY <1>2, <1>3 DEF Fresh, Snapshots
<1>7. Snapshots' = Snapshots /\ True(shown)'
  BY <1>1 DEF Snapshots, True
<1> QED
  BY <1>1, <1>4, <1>5, <1>6, <1>7

LEMMA OnHelloInv ==
  ASSUME Inv, OnHello
  PROVE  Inv'
<1> USE DEF Inv
<1>1. inbox # <<>> /\ Head(inbox) # Refresh /\ Show(Head(inbox)) /\ inbox' = Tail(inbox)
      /\ asks' = asks
  BY DEF OnHello
<1>2. /\ Head(inbox) = inbox[1] /\ Len(inbox) \in Nat \ {0}
      /\ Tail(inbox) \in Seq(Snapshots \cup {Refresh}) /\ Len(Tail(inbox)) = Len(inbox) - 1
      /\ \A i \in 1..Len(inbox) - 1 : Tail(inbox)[i] = inbox[i + 1]
  BY <1>1, EmptySeq, HeadTailProperties DEF PageType
<1>3. inbox[1] \in Snapshots /\ True(inbox[1]) /\ Show(inbox[1])
  <2>1. 1 \in 1..Len(inbox)
    BY <1>2
  <2>2. inbox[1] \in Snapshots \cup {Refresh}
    BY <2>1, ElementOfSeq DEF PageType
  <2> QED
    BY <1>1, <1>2, <2>1, <2>2 DEF PageInv
<1>4. /\ UNCHANGED <<puts, restarts, version, skewed, silent, online, dialog>>
      /\ UNCHANGED <<settings, put>>
      /\ ServerInv' /\ NotesType' /\ Snapshots' = Snapshots
      /\ shown' = inbox[1] /\ True(shown)'
      /\ newest = version \/ Fresh(inbox[1]) => newest' = version
  BY <1>3, Shows
<1>5. PageType'
  BY <1>1, <1>2, <1>3, <1>4 DEF PageType
<1>6. (\A i \in 1..Len(inbox) : True(inbox[i]))' /\ (\A i \in 1..Len(asks) : True(asks[i]))'
  BY <1>1, <1>2, <1>4 DEF PageInv, True
<1>7. ASSUME NEW i \in 1..Len(inbox), Fresh(inbox[i])
      PROVE  newest' = version \/ (\E k \in 1..Len(inbox) : Fresh(inbox[k]))'
  <2>1. CASE i = 1
    BY <2>1, <1>4, <1>7
  <2>2. CASE i # 1
    <3>1. i - 1 \in 1..Len(inbox') /\ inbox'[i - 1] = inbox[i]
      BY <2>2, <1>1, <1>2
    <3> QED
      BY <3>1, <1>4, <1>7 DEF Fresh
  <2> QED
    BY <2>1, <2>2
<1>8. PageInv'
  BY <1>1, <1>4, <1>6, <1>7 DEF PageInv, Fresh
<1> QED
  BY <1>4, <1>5, <1>8

LEMMA OnConfigInv ==
  ASSUME Inv, OnConfig
  PROVE  Inv'
<1> USE DEF Inv
<1>1. /\ inbox # <<>> /\ Len(asks) < AskBound
      /\ asks' = Append(asks, Refresh) /\ inbox' = Tail(inbox)
      /\ UNCHANGED <<online, shown, dialog>>
      /\ UNCHANGED <<puts, restarts, version, skewed, silent, newest>>
      /\ UNCHANGED server /\ UNCHANGED settings
  BY DEF OnConfig, notes, server
<1>2. ServerInv'
  BY <1>1, ServerStays
<1>3. Snapshots' = Snapshots
  BY <1>1 DEF Snapshots
<1>4. /\ Len(inbox) \in Nat \ {0}
      /\ Tail(inbox) \in Seq(Snapshots \cup {Refresh}) /\ Len(Tail(inbox)) = Len(inbox) - 1
      /\ \A i \in 1..Len(inbox) - 1 : Tail(inbox)[i] = inbox[i + 1]
  BY <1>1, EmptySeq, HeadTailProperties DEF PageType
<1>5. /\ Len(asks) \in Nat
      /\ Append(asks, Refresh) \in Seq(Snapshots \cup {Refresh, Saving})
      /\ Len(Append(asks, Refresh)) = Len(asks) + 1
      /\ \A i \in 1..Len(asks) : Append(asks, Refresh)[i] = asks[i]
      /\ Append(asks, Refresh)[Len(asks) + 1] = Refresh
  BY LenProperties, AppendProperties DEF PageType
<1>6. PageType' /\ NotesType'
  BY <1>1, <1>3, <1>4, <1>5, BoundsNat DEF PageType, NotesType
<1>7. PageInv'
  <2>1. (\A i \in 1..Len(inbox) : True(inbox[i]))'
    BY <1>1, <1>4 DEF PageInv, True
  <2>2. (\A i \in 1..Len(asks) : True(asks[i]))'
    BY <1>1, <1>5 DEF PageInv, True, Refresh
  <2>3. (\E i \in 1..Len(asks) : Fresh(asks[i]))'
    BY <1>1, <1>5 DEF Fresh, Refresh
  <2> QED
    BY <1>1, <2>1, <2>2, <2>3 DEF PageInv, True
<1> QED
  BY <1>2, <1>6, <1>7

LEMMA ServeInv ==
  ASSUME Inv, NEW i \in DOMAIN asks, Serve(i)
  PROVE  Inv'
<1> USE DEF Inv
<1>1. /\ asks' = [asks EXCEPT ![i] = Current]
      /\ UNCHANGED <<online, inbox, shown, dialog>>
      /\ UNCHANGED <<puts, restarts, version, skewed, silent, newest>>
      /\ UNCHANGED server /\ UNCHANGED settings
  BY DEF Serve, notes, server
<1>2. ServerInv'
  BY <1>1, ServerStays
<1>3. Snapshots' = Snapshots
  BY <1>1 DEF Snapshots
<1>4. i \in 1..Len(asks)
  BY LenProperties DEF PageType
<1>5. /\ asks' \in Seq(Snapshots \cup {Refresh, Saving}) /\ Len(asks') = Len(asks)
      /\ \A j \in 1..Len(asks) : asks'[j] = IF j = i THEN Current ELSE asks[j]
  BY <1>1, <1>4, CurrentType, ExceptSeq DEF PageType
<1>6. PageType' /\ NotesType'
  BY <1>1, <1>3, <1>5 DEF PageType, NotesType
<1>7. PageInv'
  <2>1. (\A j \in 1..Len(asks) : True(asks[j]))'
    BY <1>1, <1>5, CurrentType DEF PageInv, True
  <2>2. (\E j \in 1..Len(asks) : Fresh(asks[j]))'
    BY <1>1, <1>4, <1>5, CurrentType DEF Fresh
  <2> QED
    BY <1>1, <2>1, <2>2 DEF PageInv, True
<1> QED
  BY <1>2, <1>6, <1>7

LEMMA OnAnswerInv ==
  ASSUME Inv, NEW i \in DOMAIN asks, OnAnswer(i)
  PROVE  Inv'
<1> USE DEF Inv
<1>1. /\ asks[i] \notin {Refresh, Saving} /\ Show(asks[i])
      /\ asks' = RemoveAt(asks, i) /\ inbox' = inbox
  BY DEF OnAnswer
<1>2. i \in 1..Len(asks) /\ Len(asks) \in Nat
  BY LenProperties DEF PageType
<1>3. asks[i] \in Snapshots /\ True(asks[i])
  <2>1. asks[i] \in Snapshots \cup {Refresh, Saving}
    BY <1>2, ElementOfSeq DEF PageType
  <2> QED
    BY <1>1, <1>2, <2>1 DEF PageInv
<1>4. /\ asks' \in Seq(Snapshots \cup {Refresh, Saving}) /\ Len(asks') = Len(asks) - 1
      /\ \A j \in 1..Len(asks) : j # i => \E k \in 1..Len(asks) - 1 : asks'[k] = asks[j]
      /\ \A k \in 1..Len(asks) - 1 : \E j \in 1..Len(asks) : asks'[k] = asks[j]
  BY <1>1, <1>2, Removed DEF PageType
<1>5. /\ UNCHANGED <<puts, restarts, version, skewed, silent, online, dialog>>
      /\ UNCHANGED <<settings, put>>
      /\ ServerInv' /\ NotesType' /\ Snapshots' = Snapshots
      /\ shown' = asks[i] /\ True(shown)'
      /\ newest = version \/ Fresh(asks[i]) => newest' = version
  BY <1>1, <1>3, Shows
<1>6. PageType'
  BY <1>1, <1>2, <1>3, <1>4, <1>5, BoundsNat DEF PageType
<1>7. (\A j \in 1..Len(inbox) : True(inbox[j]))' /\ (\A j \in 1..Len(asks) : True(asks[j]))'
  BY <1>1, <1>4, <1>5 DEF PageInv, True
<1>8. ASSUME NEW j \in 1..Len(asks), Fresh(asks[j])
      PROVE  newest' = version \/ (\E k \in 1..Len(asks) : Fresh(asks[k]))'
  BY <1>4, <1>5, <1>8 DEF Fresh
<1>9. PageInv'
  BY <1>1, <1>5, <1>7, <1>8 DEF PageInv, Fresh
<1> QED
  BY <1>5, <1>6, <1>9

LEMMA OpenSettingsInv ==
  ASSUME Inv, OpenSettings
  PROVE  Inv'
<1> USE DEF Inv
<1>1. /\ dialog' = shown.settings
      /\ UNCHANGED <<online, inbox, asks, shown>>
      /\ UNCHANGED <<puts, restarts, version, skewed, silent, newest>>
      /\ UNCHANGED server /\ UNCHANGED <<settings, put>>
  BY DEF OpenSettings, notes, server
<1>2. ServerInv'
  BY <1>1, ServerStays
<1>3. dialog' \in Settings
  BY <1>1 DEF PageType, Snapshots
<1>4. PageType' /\ NotesType'
  BY <1>1, <1>3 DEF PageType, NotesType, Snapshots
<1>5. PageInv'
  BY <1>1 DEF PageInv, True, Fresh
<1> QED
  BY <1>2, <1>4, <1>5

LEMMA SaveSettingsInv ==
  ASSUME Inv, NEW key \in RuntimeKeys, NEW value \in Values(key), SaveSettings(key, value)
  PROVE  Inv'
<1> USE DEF Inv
<1> DEFINE saved == [dialog EXCEPT ![key] = value]
           body  == <<Entry("tokenizer", saved.tokenizer), Entry("ttft_ms", saved.ttft_ms)>>
<1>1. /\ dialog \in Settings /\ Len(asks) < AskBound
      /\ Begin(body)
      /\ dialog' = NoSettings /\ asks' = Append(asks, Saving)
      /\ UNCHANGED <<online, inbox, shown>>
  BY DEF SaveSettings, PageType
<1>2. body \in Seq(Entries) /\ Len(body) <= 2
  BY <1>1, SettingSet, DialogType
<1> HIDE DEF body
<1>3. /\ ServerInv' /\ NotesType'
      /\ put.applied = {} /\ put'.applied = {}
  BY <1>1, <1>2, BeginServer
<1>4. UNCHANGED <<version, settings, newest, silent>>
  BY <1>1 DEF Begin
<1>5. /\ Len(asks) \in Nat
      /\ asks' \in Seq(Snapshots \cup {Refresh, Saving}) /\ Len(asks') = Len(asks) + 1
      /\ \A i \in 1..Len(asks) : asks'[i] = asks[i]
      /\ asks'[Len(asks) + 1] = Saving
  BY <1>1, LenProperties, AppendProperties DEF PageType
<1>6. PageType'
  BY <1>1, <1>4, <1>5, BoundsNat DEF PageType, Snapshots
<1>7. PageInv'
  <2>1. (\A i \in 1..Len(asks) : True(asks[i]))'
    BY <1>4, <1>5 DEF PageInv, True, Saving
  <2>2. (\A i \in 1..Len(inbox) : True(inbox[i]))' /\ True(shown)'
    BY <1>1, <1>4 DEF PageInv, True
  <2>3. (\E i \in 1..Len(inbox) : Fresh(inbox[i])) => (\E i \in 1..Len(inbox) : Fresh(inbox[i]))'
    BY <1>1, <1>4 DEF Fresh
  <2>4. (\E i \in 1..Len(asks) : Fresh(asks[i])) => (\E i \in 1..Len(asks) : Fresh(asks[i]))'
    BY <1>4, <1>5 DEF Fresh
  <2> QED
    BY <1>1, <1>3, <1>4, <2>1, <2>2, <2>3, <2>4 DEF PageInv
<1> QED
  BY <1>3, <1>6, <1>7

-----------------------------------------------------------------------------
(* The theorems                                                             *)

LEMMA NextInv == Inv /\ [Next]_vars => Inv'
<1> SUFFICES ASSUME Inv, [Next]_vars PROVE Inv'
  OBVIOUS
<1>1. CASE PutConfig
  BY <1>1, PutInv, ApplyInv, RefuseInv, DoneInv DEF PutConfig
<1>2. CASE \E f \in Settings : Restart(f)
  BY <1>2, RestartInv
<1>3. CASE Connect \/ Lose \/ OnHello \/ OnConfig \/ OpenSettings
  BY <1>3, ConnectInv, LoseInv, OnHelloInv, OnConfigInv, OpenSettingsInv
<1>4. CASE \E i \in DOMAIN asks : Serve(i) \/ OnAnswer(i)
  BY <1>4, ServeInv, OnAnswerInv
<1>5. CASE \E key \in RuntimeKeys : \E value \in Values(key) : SaveSettings(key, value)
  BY <1>5, SaveSettingsInv
<1>6. CASE UNCHANGED vars
  <2>1. /\ UNCHANGED server /\ UNCHANGED <<settings, put, online, inbox, asks, shown, dialog>>
        /\ UNCHANGED <<puts, restarts, version, skewed, silent, newest>>
    BY <1>6 DEF vars, server, page, notes
  <2>2. ServerInv'
    BY <2>1, ServerStays
  <2>3. PageType' /\ NotesType' /\ PageInv'
    BY <2>1 DEF Inv, PageType, NotesType, PageInv, Snapshots, True, Fresh
  <2> QED
    BY <2>2, <2>3 DEF Inv
<1> QED
  BY <1>1, <1>2, <1>3, <1>4, <1>5, <1>6 DEF Next, Page

\* The server's settings, table, codec and PUT and the page's copies keep their types
\* and their agreement.
THEOREM InvAlways == Spec => []Inv
<1> QED
  BY InitInv, NextInv, PTL DEF Spec

LEMMA InvTyped == Inv => TypeOK
<1> SUFFICES ASSUME Inv PROVE TypeOK
  OBVIOUS
<1> USE DEF Inv, ServerInv
<1>1. /\ {file, settings} \subseteq Settings
      /\ \A key \in RuntimeKeys : overrides[key] \in Values(key) \cup {Unset}
      /\ codec \in {"o200k_base", "approx"}
      /\ Len(put.todo) <= 2 /\ put.applied \subseteq RuntimeKeys
  BY DEF ServerType, Table, Puts, RuntimeKeys
<1>2. Range(inbox) \subseteq Snapshots \cup {Refresh}
  BY RangeOfSeq DEF PageType
<1>3. Range(asks) \subseteq Snapshots \cup {Refresh, Saving}
  BY RangeOfSeq DEF PageType
<1>4. {skewed, silent} \subseteq BOOLEAN
  BY DEF NotesType
<1> QED
  BY <1>1, <1>2, <1>3, <1>4 DEF PageType, NotesType, TypeOK, Snapshots

\* What the conversion of a key refuses gets into no setting, no table and no copy, and
\* the bounds hold (config.py, coerce_runtime_value).
THEOREM TypeCorrect == Spec => []TypeOK
<1> QED
  BY InvAlways, InvTyped, PTL

\* A restart on the same file brings the settings in force (app.py, create_app;
\* api_console.py, put_config).
THEOREM RestartKeepsAlways == Spec => []RestartKeeps
<1>1. Inv => RestartKeeps
  BY DEF Inv, ServerInv
<1> QED
  BY <1>1, InvAlways, PTL

\* Between PUTs the codec is that of the tokenizer in force, but for a refused PUT that
\* had set it (api_console.py, put_config).
THEOREM CodecInStepAlways == Spec => []CodecInStep
<1>1. Inv => CodecInStep
  BY DEF Inv, ServerInv, CodecFollows, CodecInStep, Idle, NoPut
<1> QED
  BY <1>1, InvAlways, PTL

\* A connected page at rest shows the settings in force (console.js, refreshState and
\* the messages hello and config).
THEOREM SettingsShownAlways == Spec => []SettingsShown
<1>1. Inv => SettingsShown
  <2> SUFFICES ASSUME Inv, online, Idle, inbox = <<>>, asks = <<>>, ~silent,
                      shown.version = newest
               PROVE  shown.settings = settings
    BY DEF SettingsShown
  <2>1. put.applied = {}
    BY DEF Idle, NoPut
  <2>2. Len(inbox) = 0 /\ Len(asks) = 0
    BY EmptySeq
  <2>3. newest = version
    BY <2>1, <2>2 DEF Inv, PageInv
  <2> QED
    BY <2>3 DEF Inv, PageInv, PageType, Snapshots, True
<1> QED
  BY <1>1, InvAlways, PTL
=============================================================================
