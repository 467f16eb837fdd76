------------------------------ MODULE AcpProofs ------------------------------
(***************************************************************************)
(* The sessions of the ACP agent, for any sessions and prompts and any     *)
(* size of the map: whose the entries are, what evicting one does to the   *)
(* runs that hold it, how large the map grows, and what becomes of turns.  *)
(***************************************************************************)
EXTENDS Acp, TLAPS, FiniteSetTheorems

USE AcpAssumption DEF NoEntry, Live

\* What holds of a map, the entries and the prompts: an entry is of one session, in the map
\* and with the prompts; what the map has is not evicted; and an evicted entry's controller
\* has fired, and so have the signals of the runs that hold it.
Good(map, es, ps) ==
    /\ map \in [AcpSessions -> {NoEntry} \cup Entries]
    /\ es \in [Entries -> Entry]
    /\ ps \in [AcpPrompts -> Prompt]
    /\ \A s, t \in AcpSessions : map[s] # NoEntry /\ map[s] = map[t] => s = t
    /\ \A p \in AcpPrompts, s \in AcpSessions :
          ps[p].entry # NoEntry /\ ps[p].entry = map[s] => ps[p].of = s
    /\ \A p, q \in AcpPrompts :
          ps[p].entry # NoEntry /\ ps[p].entry = ps[q].entry => ps[p].of = ps[q].of
    /\ \A s \in AcpSessions : map[s] # NoEntry => ~es[map[s]].evicted
    /\ \A e \in Entries : es[e].evicted => es[e].fired
    /\ \A p \in AcpPrompts :
          ps[p].pc \in {"preparing", "running", "saving"} <=> ps[p].entry # NoEntry
    /\ \A p \in AcpPrompts :
          ps[p].pc = "running" /\ es[ps[p].entry].evicted => ps[p].aborted

\* What nothing holds is blank.
FreeIsBlank == \A e \in Entries \ Held(sessions, prompt) : entry[e] = Blank

AcpStores ==
    /\ stored \in [AcpSessions -> Transcripts]
    /\ known \in SUBSET AcpSessions /\ disturbed \in SUBSET AcpSessions

AcpIInv == Good(sessions, entry, prompt) /\ FreeIsBlank /\ AcpStores

-----------------------------------------------------------------------------
LEMMA EntriesType == /\ Entries \subseteq Nat \ {0}
                     /\ IsFiniteSet(Entries)
                     /\ Cardinality(Entries)
                          = Cardinality(AcpSessions) + Cardinality(AcpPrompts) + 1
<1>1. Cardinality(AcpSessions) \in Nat /\ Cardinality(AcpPrompts) \in Nat
  BY FS_CardinalityType
<1> DEFINE n == Cardinality(AcpSessions) + Cardinality(AcpPrompts) + 1
<1>2. n \in Nat /\ n > 0 /\ Entries = 1 .. n
  BY <1>1 DEF Entries
<1> HIDE DEF n
<1>3. IsFiniteSet(1 .. n) /\ Cardinality(1 .. n) = n
  BY <1>2, FS_Interval
<1> QED
  BY <1>2, <1>3 DEF n

LEMMA BlankType == Blank \in Entry /\ ~Blank.evicted /\ ~Blank.fired
BY DEF Blank, Entry, Transcripts

\* There are more entries than sessions and prompts can hold.
LEMMA FreeExists ==
    ASSUME Good(sessions, entry, prompt)
    PROVE  FreeEntry \in Entries /\ FreeEntry \notin Held(sessions, prompt)
<1> DEFINE A == {sessions[s] : s \in AcpSessions}
           B == {prompt[p].entry : p \in AcpPrompts}
           g == [p \in AcpPrompts |-> prompt[p].entry]
<1>1. IsFiniteSet(A) /\ Cardinality(A) <= Cardinality(AcpSessions)
  <2>1. sessions \in Surjection(AcpSessions, A)
    BY DEF Good, Surjection
  <2> QED
    BY <2>1, FS_Surjection
<1>2. IsFiniteSet(B) /\ Cardinality(B) <= Cardinality(AcpPrompts)
  <2>1. g \in Surjection(AcpPrompts, B)
    BY DEF Surjection
  <2> QED
    BY <2>1, FS_Surjection
<1>3. IsFiniteSet(A \cup B) /\ Cardinality(A \cup B) <= Cardinality(A) + Cardinality(B)
  <2>1. IsFiniteSet(A \cap B)
    BY <1>1, FS_Intersection
  <2>2. Cardinality(A \cap B) \in Nat /\ Cardinality(A) \in Nat /\ Cardinality(B) \in Nat
    BY <1>1, <1>2, <2>1, FS_CardinalityType
  <2>3. IsFiniteSet(A \cup B)
        /\ Cardinality(A \cup B) = Cardinality(A) + Cardinality(B) - Cardinality(A \cap B)
    BY <1>1, <1>2, FS_Union
  <2> QED
    BY <2>2, <2>3
<1>4. ~(Entries \subseteq A \cup B)
  <2> SUFFICES ASSUME Entries \subseteq A \cup B PROVE FALSE
    OBVIOUS
  <2>1. Cardinality(Entries) <= Cardinality(A \cup B)
    BY <1>3, FS_Subset
  <2>2. /\ Cardinality(A) \in Nat /\ Cardinality(B) \in Nat /\ Cardinality(A \cup B) \in Nat
        /\ Cardinality(AcpSessions) \in Nat /\ Cardinality(AcpPrompts) \in Nat
    BY <1>1, <1>2, <1>3, FS_CardinalityType
  <2> HIDE DEF A, B
  <2> QED
    BY <1>1, <1>2, <1>3, <2>1, <2>2, EntriesType
<1>5. Held(sessions, prompt) = A \cup B
  BY DEF Held
<1>6. \E e \in Entries : e \notin Held(sessions, prompt)
  BY <1>4, <1>5
<1> QED
  BY <1>6 DEF FreeEntry

\* What Becomes() makes of a good map, entries and prompts is good.
LEMMA BecomesGood ==
    ASSUME NEW map, NEW es, NEW ps, Good(map, es, ps), Becomes(map, es, ps), AcpStores'
    PROVE  AcpIInv'
<1>1. /\ sessions' = map /\ prompt' = ps
      /\ entry' = [e \in Entries |-> IF e \in Held(map, ps) THEN es[e] ELSE Blank]
  BY DEF Becomes
<1>2. FreeIsBlank'
  BY <1>1 DEF FreeIsBlank
<1>3. \A e \in Entries : entry'[e] = es[e] \/ entry'[e] = Blank
  BY <1>1
<1>4. /\ \A s \in AcpSessions : map[s] # NoEntry => entry'[map[s]] = es[map[s]]
      /\ \A p \in AcpPrompts : ps[p].entry # NoEntry => entry'[ps[p].entry] = es[ps[p].entry]
  BY <1>1 DEF Good, Held, Prompt
<1>5. entry' \in [Entries -> Entry]
  BY <1>1, BlankType DEF Good
<1>6. Good(map, entry', ps)
  BY <1>3, <1>4, <1>5, BlankType DEF Good
<1> QED
  BY <1>1, <1>2, <1>6 DEF AcpIInv

\* A fresh entry can come into the map.
LEMMA MapGood ==
    ASSUME NEW map, NEW es, NEW ps, Good(map, es, ps), NEW s \in AcpSessions,
           NEW e \in Entries, e \notin Held(map, ps), ~es[e].evicted
    PROVE  Good([map EXCEPT ![s] = e], es, ps)
BY EntriesType DEF Good, Held

LEMMA UnmapGood ==
    ASSUME NEW map, NEW es, NEW ps, Good(map, es, ps), NEW t \in AcpSessions
    PROVE  Good([map EXCEPT ![t] = NoEntry], es, ps)
BY EntriesType DEF Good

\* Firing the signals of an entry's runs.
LEMMA AbortingType ==
    ASSUME NEW ps \in [AcpPrompts -> Prompt], NEW e
    PROVE  /\ Aborting(ps, e) \in [AcpPrompts -> Prompt]
           /\ \A p \in AcpPrompts :
                 /\ Aborting(ps, e)[p].pc = ps[p].pc
                 /\ Aborting(ps, e)[p].of = ps[p].of
                 /\ Aborting(ps, e)[p].entry = ps[p].entry
                 /\ ps[p].aborted => Aborting(ps, e)[p].aborted
                 /\ ps[p].pc = "running" /\ ps[p].entry = e => Aborting(ps, e)[p].aborted
<1>1. ASSUME NEW p \in AcpPrompts
      PROVE  /\ [ps[p] EXCEPT !.aborted = TRUE] \in Prompt
             /\ ps[p] \in Prompt
  BY DEF Prompt
<1> QED
  BY <1>1 DEF Aborting, Prompt

\* Evicting what the map does not have.
LEMMA EvictGood ==
    ASSUME NEW map, NEW es, NEW ps, Good(map, es, ps), NEW k \in Entries,
           \A s \in AcpSessions : map[s] # k
    PROVE  Good(map, Evicted(es, ps, k).es, Evicted(es, ps, k).ps)
<1> DEFINE es2 == [es EXCEPT ![k] = [es[k] EXCEPT !.evicted = TRUE, !.fired = TRUE]]
           ps2 == Aborting(ps, k)
<1>1. Evicted(es, ps, k).es = es2 /\ Evicted(es, ps, k).ps = ps2
  BY DEF Evicted, Good, Entry
<1>2. /\ es2 \in [Entries -> Entry] /\ es2[k].evicted /\ es2[k].fired
      /\ \A e \in Entries : e # k => es2[e] = es[e]
  BY DEF Good, Entry
<1>3. /\ ps2 \in [AcpPrompts -> Prompt]
      /\ \A p \in AcpPrompts :
            /\ ps2[p].pc = ps[p].pc /\ ps2[p].of = ps[p].of /\ ps2[p].entry = ps[p].entry
            /\ ps[p].aborted => ps2[p].aborted
            /\ ps[p].pc = "running" /\ ps[p].entry = k => ps2[p].aborted
  BY AbortingType DEF Good
<1> HIDE DEF es2, ps2
<1>4. \A p \in AcpPrompts : ps2[p].pc = "running" /\ es2[ps2[p].entry].evicted => ps2[p].aborted
  BY <1>2, <1>3 DEF Good, Prompt
<1>5. Good(map, es2, ps2)
  BY <1>2, <1>3, <1>4 DEF Good
<1> QED
  BY <1>1, <1>5

-----------------------------------------------------------------------------
LEMMA AcpInitInv == AcpInit => AcpIInv
<1> SUFFICES ASSUME AcpInit PROVE AcpIInv
  OBVIOUS
<1>1. \A p \in AcpPrompts : /\ prompt[p] \in Prompt
                            /\ prompt[p].pc = "new" /\ prompt[p].entry = NoEntry
  BY DEF AcpInit, AcpIdle, Prompt, Transcripts
<1>2. prompt \in [AcpPrompts -> Prompt]
  BY DEF AcpInit, AcpIdle, Prompt, Transcripts
<1>3. /\ sessions = [s \in AcpSessions |-> NoEntry]
      /\ entry = [e \in Entries |-> Blank]
      /\ AcpStores
  BY DEF AcpInit, AcpIdle, AcpStores, Transcripts
<1>4. Good(sessions, entry, prompt)
  BY <1>1, <1>2, <1>3, BlankType DEF Good
<1> QED
  BY <1>3, <1>4 DEF AcpIInv, FreeIsBlank

LEMMA PromptType ==
    ASSUME AcpIInv, NEW p \in AcpPrompts
    PROVE  /\ prompt[p] \in Prompt
           /\ prompt[p].pc \in {"preparing", "running", "saving"} => prompt[p].entry \in Entries
           /\ sessions[prompt[p].of] \in {NoEntry} \cup Entries
BY DEF AcpIInv, Good, Prompt

LEMMA FreeFacts ==
    ASSUME AcpIInv
    PROVE  /\ FreeEntry \in Entries /\ FreeEntry \notin Held(sessions, prompt)
           /\ entry[FreeEntry] = Blank
BY FreeExists DEF AcpIInv, FreeIsBlank

LEMMA AddingGood ==
    ASSUME AcpIInv, NEW s \in AcpSessions, NEW turns \in Transcripts,
           Adding(s, FreeEntry, turns), AcpStores'
    PROVE  AcpIInv'
<1> DEFINE e == FreeEntry
           map == [sessions EXCEPT ![s] = e]
           es == [entry EXCEPT ![e].turns = turns]
<1>1. e \in Entries /\ e \notin Held(sessions, prompt) /\ entry[e] = Blank
  BY FreeFacts
<1> HIDE DEF e
<1>2. /\ es \in [Entries -> Entry]
      /\ \A d \in Entries : es[d].fired = entry[d].fired /\ es[d].evicted = entry[d].evicted
  BY <1>1 DEF AcpIInv, Good, Entry
<1>3. Good(sessions, es, prompt)
  BY <1>2, EntriesType DEF AcpIInv, Good, Prompt
<1>4. Good(map, es, prompt)
  BY <1>1, <1>2, <1>3, MapGood, BlankType
<1>5. \/ Becomes(map, es, prompt)
      \/ \E t \in Mapped(map) : Evicting([map EXCEPT ![t] = NoEntry], es, prompt, map[t])
  BY DEF Adding, e
<1> HIDE DEF map, es
<1>6. CASE Becomes(map, es, prompt)
  BY <1>4, <1>6, BecomesGood
<1>7. ASSUME NEW t \in Mapped(map), Evicting([map EXCEPT ![t] = NoEntry], es, prompt, map[t])
      PROVE  AcpIInv'
  <2> DEFINE un == [map EXCEPT ![t] = NoEntry]
  <2>1. t \in AcpSessions /\ map[t] # NoEntry /\ map[t] \in Entries
    BY <1>4, EntriesType DEF Mapped, Good
  <2>2. Good(un, es, prompt)
    BY <1>4, <2>1, UnmapGood
  <2>3. \A r \in AcpSessions : un[r] # map[t]
    BY <1>4, <2>1 DEF Good
  <2> HIDE DEF un
  <2>4. Good(un, Evicted(es, prompt, map[t]).es, Evicted(es, prompt, map[t]).ps)
    BY <2>1, <2>2, <2>3, EvictGood
  <2>5. Becomes(un, Evicted(es, prompt, map[t]).es, Evicted(es, prompt, map[t]).ps)
    BY <1>7 DEF Evicting, un
  <2> QED
    BY <2>4, <2>5, BecomesGood
<1> QED
  BY <1>5, <1>6, <1>7

LEMMA AcpSessionInv ==
    ASSUME AcpIInv, NEW s \in AcpSessions,
           AcpNewSession(s) \/ AcpLoadSession(s) \/ AcpSetMode(s) \/ AcpCancel(s)
    PROVE  AcpIInv'
<1>1. CASE AcpNewSession(s)
  <2>1. AcpStores' /\ Adding(s, FreeEntry, {})
    BY <1>1 DEF AcpNewSession, AcpIInv, AcpStores
  <2> QED
    BY <2>1, AddingGood DEF Transcripts
<1>2. CASE AcpLoadSession(s)
  <2>1. AcpStores' /\ Adding(s, FreeEntry, stored[s]) /\ stored[s] \in Transcripts
    BY <1>2 DEF AcpLoadSession, AcpIInv, AcpStores
  <2> QED
    BY <2>1, AddingGood
<1>3. CASE AcpSetMode(s)
  <2>1. entry[sessions[s]].turns \in Transcripts
    BY <1>3, EntriesType DEF AcpSetMode, AcpIInv, Good, Entry
  <2>2. AcpStores'
    BY <1>3, <2>1 DEF AcpSetMode, AcpIInv, AcpStores, Busy
  <2>3. UNCHANGED <<sessions, entry, prompt>>
    BY <1>3 DEF AcpSetMode
  <2> QED
    BY <2>2, <2>3 DEF AcpIInv, FreeIsBlank
<1>4. CASE AcpCancel(s)
  <2> DEFINE k == sessions[s]
             es == [entry EXCEPT ![k].fired = FALSE]
             ps == Aborting(prompt, k)
  <2>1. /\ k \in Entries /\ ~entry[k].evicted
        /\ Becomes(sessions, es, ps) /\ UNCHANGED <<stored, known, disturbed>>
    BY <1>4 DEF AcpCancel, AcpIInv, Good
  <2>2. /\ es \in [Entries -> Entry]
        /\ \A e \in Entries : /\ es[e].evicted = entry[e].evicted
                              /\ e # k => es[e].fired = entry[e].fired
    <3>1. entry \in [Entries -> Entry]
      BY DEF AcpIInv, Good
    <3>2. [entry[k] EXCEPT !.fired = FALSE] \in Entry
      BY <2>1, <3>1 DEF Entry
    <3>3. es = [entry EXCEPT ![k] = [entry[k] EXCEPT !.fired = FALSE]]
      OBVIOUS
    <3>4. [entry[k] EXCEPT !.fired = FALSE].evicted = entry[k].evicted
      BY <2>1, <3>1 DEF Entry
    <3> QED
      BY <2>1, <3>1, <3>2, <3>3, <3>4
  <2>3. /\ ps \in [AcpPrompts -> Prompt]
        /\ \A p \in AcpPrompts :
              /\ ps[p].pc = prompt[p].pc /\ ps[p].of = prompt[p].of
              /\ ps[p].entry = prompt[p].entry
              /\ prompt[p].aborted => ps[p].aborted
    BY AbortingType DEF AcpIInv, Good
  <2> HIDE DEF es, ps, k
  <2>4. \A p \in AcpPrompts :
            ps[p].pc = "running" /\ es[ps[p].entry].evicted => ps[p].aborted
    BY <2>2, <2>3, PromptType
       DEF AcpIInv, Good
  <2>5. Good(sessions, es, ps)
    BY <2>1, <2>2, <2>3, <2>4 DEF AcpIInv, Good
  <2>6. AcpStores'
    BY <2>1 DEF AcpIInv, AcpStores
  <2> QED
    BY <2>1, <2>5, <2>6, BecomesGood
<1> QED
  BY <1>1, <1>2, <1>3, <1>4

-----------------------------------------------------------------------------
\* Where one prompt changes, and keeps its entry or takes that of its session.
LEMMA PromptGood ==
    ASSUME AcpIInv, NEW p \in AcpPrompts, NEW x \in Prompt,
           prompt' = [prompt EXCEPT ![p] = x], UNCHANGED <<sessions, entry>>, AcpStores',
           x.of = prompt[p].of,
           x.entry = prompt[p].entry
             \/ (x.entry = sessions[x.of] /\ prompt[p].entry = NoEntry),
           x.pc \in {"preparing", "running", "saving"} <=> x.entry # NoEntry,
           x.pc = "running" /\ entry[x.entry].evicted => x.aborted
    PROVE  AcpIInv'
<1>1. /\ \A q \in AcpPrompts : prompt'[q] = IF q = p THEN x ELSE prompt[q]
      /\ prompt' \in [AcpPrompts -> Prompt]
  BY DEF AcpIInv, Good
<1>2. \A q \in AcpPrompts, s \in AcpSessions :
          prompt'[q].entry # NoEntry /\ prompt'[q].entry = sessions[s] => prompt'[q].of = s
  BY <1>1 DEF AcpIInv, Good, Prompt
<1>3. \A q, r \in AcpPrompts :
          prompt'[q].entry # NoEntry /\ prompt'[q].entry = prompt'[r].entry
             => prompt'[q].of = prompt'[r].of
  BY <1>1, <1>2 DEF AcpIInv, Good, Prompt
<1>4. Good(sessions, entry, prompt')
  BY <1>1, <1>2, <1>3 DEF AcpIInv, Good
<1>5. Held(sessions, prompt) \ {NoEntry} \subseteq Held(sessions, prompt')
  BY <1>1 DEF Held, AcpIInv, Good
<1>6. FreeIsBlank'
  BY <1>5, EntriesType DEF AcpIInv, FreeIsBlank
<1> QED
  BY <1>4, <1>6 DEF AcpIInv

LEMMA AcpPromptInv ==
    ASSUME AcpIInv, NEW p \in AcpPrompts, AcpPrompt(p)
    PROVE  AcpIInv'
<1> DEFINE e == sessions[prompt[p].of]
           x == [prompt[p] EXCEPT !.pc = IF e = NoEntry THEN "creating" ELSE "preparing",
                                  !.entry = e]
<1>1. /\ prompt[p] \in Prompt /\ e \in {NoEntry} \cup Entries
  BY PromptType
<1>2. /\ x \in Prompt /\ x.of = prompt[p].of /\ x.entry = e /\ x.pc # "running"
      /\ x.pc \in {"preparing", "saving"} <=> e # NoEntry
  BY <1>1 DEF Prompt
<1>3. prompt' = [prompt EXCEPT ![p] = x] /\ UNCHANGED <<sessions, entry>>
  BY DEF AcpPrompt
<1>4. AcpStores'
  BY <1>1 DEF AcpPrompt, AcpIInv, AcpStores, Busy, Prompt
<1>5. prompt[p].entry = NoEntry
  BY DEF AcpPrompt, AcpIInv, Good
<1> HIDE DEF x
<1> QED
  BY <1>2, <1>3, <1>4, <1>5, PromptGood

LEMMA AcpCreateInv ==
    ASSUME AcpIInv, NEW p \in AcpPrompts, AcpCreate(p)
    PROVE  AcpIInv'
<1> DEFINE x == [prompt[p] EXCEPT !.pc = "created"]
<1>1. /\ prompt[p] \in Prompt /\ prompt[p].pc = "creating" /\ prompt[p].entry = NoEntry
  BY PromptType DEF AcpCreate, AcpIInv, Good
<1>2. x \in Prompt /\ x.of = prompt[p].of /\ x.entry = prompt[p].entry /\ x.pc = "created"
  BY <1>1 DEF Prompt
<1>3. prompt' = [prompt EXCEPT ![p] = x] /\ UNCHANGED <<sessions, entry>>
  BY DEF AcpCreate
<1>4. AcpStores'
  BY <1>1 DEF AcpCreate, AcpIInv, AcpStores, Prompt, Transcripts
<1> HIDE DEF x
<1> QED
  BY <1>1, <1>2, <1>3, <1>4, PromptGood

LEMMA AcpRunInv ==
    ASSUME AcpIInv, NEW p \in AcpPrompts, AcpRun(p)
    PROVE  AcpIInv'
<1> DEFINE e == prompt[p].entry
           x == [prompt[p] EXCEPT !.pc = "running", !.turns = entry[e].turns,
                                  !.aborted = entry[e].fired]
<1>1. /\ prompt[p] \in Prompt /\ e \in Entries
  BY PromptType DEF AcpRun
<1>2. entry[e] \in Entry
  BY <1>1 DEF AcpIInv, Good
<1>3. /\ x \in Prompt /\ x.of = prompt[p].of /\ x.entry = e /\ x.pc = "running"
      /\ x.aborted = entry[e].fired
  BY <1>1, <1>2 DEF Prompt, Entry
<1>4. prompt' = [prompt EXCEPT ![p] = x] /\ UNCHANGED <<sessions, entry>>
  BY DEF AcpRun
<1>5. AcpStores'
  BY DEF AcpRun, AcpIInv, AcpStores
<1>6. e # NoEntry /\ (entry[e].evicted => entry[e].fired)
  BY <1>1, EntriesType DEF AcpIInv, Good
<1> HIDE DEF x
<1> QED
  BY <1>3, <1>4, <1>5, <1>6, PromptGood

LEMMA AcpSavesInv ==
    ASSUME AcpIInv, NEW p \in AcpPrompts, AcpLoopSave(p) \/ AcpSave(p)
    PROVE  AcpIInv'
<1>1. /\ prompt[p] \in Prompt /\ prompt[p].pc = "running" /\ prompt[p].entry # NoEntry
      /\ prompt[p].of \in AcpSessions
      /\ entry[prompt[p].entry].evicted => prompt[p].aborted
  BY PromptType DEF AcpLoopSave, AcpSave, AcpIInv, Good, Prompt
<1>2. Result(p) \in Transcripts /\ prompt[p].turns \in Transcripts
  BY <1>1 DEF Result, Prompt, Transcripts
<1>3. CASE AcpLoopSave(p)
  <2> DEFINE x == [prompt[p] EXCEPT !.turns = Result(p)]
  <2>1. /\ x \in Prompt /\ x.of = prompt[p].of /\ x.entry = prompt[p].entry
        /\ x.pc = "running" /\ x.aborted = prompt[p].aborted
    BY <1>1, <1>2 DEF Prompt
  <2>2. prompt' = [prompt EXCEPT ![p] = x] /\ UNCHANGED <<sessions, entry>>
    BY <1>3 DEF AcpLoopSave
  <2>3. AcpStores'
    BY <1>2, <1>3 DEF AcpLoopSave, AcpIInv, AcpStores
  <2> HIDE DEF x
  <2> QED
    BY <1>1, <2>1, <2>2, <2>3, PromptGood
<1>4. CASE AcpSave(p)
  <2>1. PICK turns \in Transcripts :
           /\ stored' = [stored EXCEPT ![prompt[p].of] = turns]
           /\ prompt' = [prompt EXCEPT ![p].pc = "saving", ![p].turns = turns,
                                       ![p].aborted = FALSE]
    BY <1>2, <1>4 DEF AcpSave
  <2> DEFINE x == [prompt[p] EXCEPT !.pc = "saving", !.turns = turns, !.aborted = FALSE]
  <2>2. /\ x \in Prompt /\ x.of = prompt[p].of /\ x.entry = prompt[p].entry
        /\ x.pc = "saving"
    BY <1>1 DEF Prompt
  <2>3. prompt' = [prompt EXCEPT ![p] = x] /\ UNCHANGED <<sessions, entry, known, disturbed>>
    BY <1>4, <2>1 DEF AcpSave
  <2>4. AcpStores'
    BY <2>1, <2>3 DEF AcpIInv, AcpStores
  <2> HIDE DEF x
  <2> QED
    BY <1>1, <2>2, <2>3, <2>4, PromptGood
<1> QED
  BY <1>3, <1>4

LEMMA AcpFailsInv ==
    ASSUME AcpIInv, NEW p \in AcpPrompts, AcpFails(p)
    PROVE  AcpIInv'
<1> DEFINE x == [prompt[p] EXCEPT !.pc = "done", !.entry = NoEntry, !.turns = {},
                                  !.aborted = FALSE]
           ps == [prompt EXCEPT ![p] = x]
<1>1. prompt[p] \in Prompt /\ {} \in Transcripts
  BY PromptType DEF Transcripts
<1>2. /\ x \in Prompt /\ x.entry = NoEntry /\ x.pc = "done"
  BY <1>1 DEF Prompt
<1>3. Becomes(sessions, entry, ps)
  BY DEF AcpFails
<1>4. AcpStores'
  BY <1>1 DEF AcpFails, AcpIInv, AcpStores, Prompt
<1> HIDE DEF x
<1>5. Good(sessions, entry, ps)
  BY <1>2 DEF AcpIInv, Good
<1> HIDE DEF ps
<1> QED
  BY <1>3, <1>4, <1>5, BecomesGood

LEMMA AcpDoneInv ==
    ASSUME AcpIInv, NEW p \in AcpPrompts, AcpDone(p)
    PROVE  AcpIInv'
<1> DEFINE e == prompt[p].entry
           s == prompt[p].of
           map == [sessions EXCEPT ![s] = e]
           es == [entry EXCEPT ![e] = [entry[e] EXCEPT !.turns = prompt[p].turns,
                                                      !.evicted = FALSE]]
           x == [prompt[p] EXCEPT !.pc = "done", !.entry = NoEntry, !.turns = @ \cap {p}]
           ps == [prompt EXCEPT ![p] = x]
<1>1. /\ prompt[p] \in Prompt /\ e \in Entries /\ s \in AcpSessions
      /\ prompt[p].turns \in Transcripts
  BY PromptType DEF AcpDone, Prompt
<1>2. Becomes(map, es, ps) /\ UNCHANGED <<stored, known, disturbed>>
  BY DEF AcpDone
<1>3. /\ x \in Prompt /\ x.entry = NoEntry /\ x.pc = "done"
  BY <1>1 DEF Prompt, Transcripts
<1>4. /\ es \in [Entries -> Entry] /\ ~es[e].evicted /\ es[e].fired = entry[e].fired
      /\ \A d \in Entries : d # e => es[d] = entry[d]
  <2> DEFINE y == [entry[e] EXCEPT !.turns = prompt[p].turns, !.evicted = FALSE]
  <2>1. entry \in [Entries -> Entry] /\ entry[e] \in Entry
    BY <1>1 DEF AcpIInv, Good
  <2>2. y \in Entry /\ ~y.evicted /\ y.fired = entry[e].fired
    BY <1>1, <2>1 DEF Entry
  <2> HIDE DEF y
  <2>3. es = [entry EXCEPT ![e] = y]
    BY DEF y
  <2> HIDE DEF es
  <2> QED
    BY <1>1, <2>1, <2>2, <2>3
<1> HIDE DEF x, es
<1>5. /\ ps \in [AcpPrompts -> Prompt] /\ ps[p] = x
      /\ \A q \in AcpPrompts : q # p => ps[q] = prompt[q]
  BY <1>3 DEF AcpIInv, Good
<1>6. /\ map \in [AcpSessions -> {NoEntry} \cup Entries] /\ map[s] = e
      /\ \A t \in AcpSessions : t # s => map[t] = sessions[t]
  BY <1>1 DEF AcpIInv, Good
<1>7. \A t \in AcpSessions : sessions[t] = e => t = s
  BY <1>1, EntriesType DEF AcpIInv, Good
<1>8. \A q \in AcpPrompts : prompt[q].entry = e => prompt[q].of = s
  BY <1>1, EntriesType DEF AcpIInv, Good
<1> HIDE DEF ps, map
<1>9. \A t, u \in AcpSessions : map[t] # NoEntry /\ map[t] = map[u] => t = u
  BY <1>6, <1>7 DEF AcpIInv, Good
<1>10. \A q \in AcpPrompts, t \in AcpSessions :
           ps[q].entry # NoEntry /\ ps[q].entry = map[t] => ps[q].of = t
  BY <1>3, <1>5, <1>6, <1>8 DEF AcpIInv, Good
<1>11. \A q, r \in AcpPrompts :
           ps[q].entry # NoEntry /\ ps[q].entry = ps[r].entry => ps[q].of = ps[r].of
  BY <1>3, <1>5 DEF AcpIInv, Good
<1>12. \A t \in AcpSessions : map[t] # NoEntry => ~es[map[t]].evicted
  BY <1>4, <1>6 DEF AcpIInv, Good
<1>13. \A d \in Entries : es[d].evicted => es[d].fired
  BY <1>4 DEF AcpIInv, Good
<1>14. \A q \in AcpPrompts :
           /\ ps[q].pc \in {"preparing", "running", "saving"} <=> ps[q].entry # NoEntry
           /\ ps[q].pc = "running" /\ es[ps[q].entry].evicted => ps[q].aborted
  <2> TAKE q \in AcpPrompts
  <2>1. CASE q = p
    BY <1>3, <1>5, <2>1
  <2>2. CASE q # p
    BY <1>4, <1>5, <2>2, PromptType DEF AcpIInv, Good
  <2> QED
    BY <2>1, <2>2
<1>15. Good(map, es, ps)
  BY <1>4, <1>5, <1>6, <1>9, <1>10, <1>11, <1>12, <1>13, <1>14 DEF Good
<1>16. AcpStores'
  BY <1>2 DEF AcpIInv, AcpStores
<1> QED
  BY <1>2, <1>15, <1>16, BecomesGood

LEMMA AcpAdmitInv ==
    ASSUME AcpIInv, NEW p \in AcpPrompts, AcpAdmit(p)
    PROVE  AcpIInv'
<1> DEFINE e == FreeEntry
           s == prompt[p].of
           map == [sessions EXCEPT ![s] = e]
           x == [prompt[p] EXCEPT !.pc = "preparing", !.entry = e]
           ps == [prompt EXCEPT ![p] = x]
<1>1. e \in Entries /\ e \notin Held(sessions, prompt) /\ ~entry[e].evicted /\ e # NoEntry
  BY FreeFacts, BlankType, EntriesType
<1>2. /\ prompt[p] \in Prompt /\ s \in AcpSessions
  BY PromptType DEF Prompt
<1>3. /\ \/ Becomes(map, entry, ps)
         \/ \E t \in Mapped(sessions) :
                Evicting([sessions EXCEPT ![t] = NoEntry, ![s] = e], entry, ps, sessions[t])
      /\ UNCHANGED <<stored, known, disturbed>>
  BY DEF AcpAdmit
<1> HIDE DEF e
<1>4. x \in Prompt /\ x.of = s /\ x.entry = e /\ x.pc = "preparing"
  BY <1>1, <1>2 DEF Prompt
<1> HIDE DEF x
<1>5. /\ ps \in [AcpPrompts -> Prompt] /\ ps[p] = x
      /\ \A q \in AcpPrompts : q # p => ps[q] = prompt[q] /\ prompt[q].entry # e
  BY <1>1, <1>4 DEF AcpIInv, Good, Held
<1>6. /\ map \in [AcpSessions -> {NoEntry} \cup Entries] /\ map[s] = e
      /\ \A t \in AcpSessions : /\ t # s => map[t] = sessions[t]
                               /\ sessions[t] # e
  BY <1>1, <1>2 DEF AcpIInv, Good, Held
<1> HIDE DEF ps, map
<1>7. Good(map, entry, ps)
  BY <1>1, <1>2, <1>4, <1>5, <1>6 DEF AcpIInv, Good
<1>8. AcpStores'
  BY <1>3 DEF AcpIInv, AcpStores
<1>9. CASE Becomes(map, entry, ps)
  BY <1>7, <1>8, <1>9, BecomesGood
<1>10. ASSUME NEW t \in Mapped(sessions),
              Evicting([sessions EXCEPT ![t] = NoEntry, ![s] = e], entry, ps, sessions[t])
       PROVE  AcpIInv'
  <2> DEFINE k == sessions[t]
             un == [sessions EXCEPT ![t] = NoEntry, ![s] = e]
  <2>1. t \in AcpSessions /\ k # NoEntry /\ k \in Entries /\ k # e
    BY <1>6 DEF Mapped, AcpIInv, Good
  <2>2. \A r \in AcpSessions : un[r] # k
    BY <1>2, <2>1 DEF AcpIInv, Good
  <2>3. Good(un, entry, ps)
    <3>1. CASE t = s
      <4>1. un = map
        BY <1>2, <3>1 DEF map, AcpIInv, Good
      <4> QED
        BY <1>7, <4>1
    <3>2. CASE t # s
      <4>1. un = [map EXCEPT ![t] = NoEntry]
        BY <1>2, <3>2 DEF map, AcpIInv, Good
      <4> QED
        BY <1>7, <2>1, <4>1, UnmapGood
    <3> QED
      BY <3>1, <3>2
  <2>4. Becomes(un, Evicted(entry, ps, k).es, Evicted(entry, ps, k).ps)
    BY <1>10 DEF Evicting
  <2> HIDE DEF un, k
  <2>5. Good(un, Evicted(entry, ps, k).es, Evicted(entry, ps, k).ps)
    BY <2>1, <2>2, <2>3, EvictGood
  <2> QED
    BY <1>8, <2>4, <2>5, BecomesGood
<1> QED
  BY <1>3, <1>9, <1>10 DEF map

\* The invariant of the sessions holds, whatever the client asks for
\* (butterfly-acp-agent.ts).
THEOREM AcpInvariant == AcpSpec => []AcpIInv
<1>1. AcpIInv /\ UNCHANGED acpVars => AcpIInv'
  BY DEF AcpIInv, Good, FreeIsBlank, Held, AcpStores, acpVars
<1>2. AcpIInv /\ [AcpNext]_acpVars => AcpIInv'
  BY <1>1, AcpSessionInv, AcpPromptInv, AcpCreateInv, AcpAdmitInv, AcpRunInv, AcpSavesInv,
     AcpDoneInv, AcpFailsInv DEF AcpNext
<1> QED
  BY <1>2, AcpInitInv, PTL DEF AcpSpec

\* The map, its entries and the prompts are of their types, whatever the client asks for.
THEOREM AcpTypes == AcpSpec => []AcpTypeInvariant
<1>1. AcpIInv => AcpTypeInvariant
  BY DEF AcpIInv, Good, AcpStores, AcpTypeInvariant
<1> QED
  BY <1>1, AcpInvariant, PTL

\* A run whose entry was evicted has been told to stop (butterfly-acp-agent.ts:95).
THEOREM AcpEvictedIsAborted == AcpSpec => []EvictedIsAborted
<1>1. AcpIInv => EvictedIsAborted
  BY DEF AcpIInv, Good, EvictedIsAborted
<1> QED
  BY <1>1, AcpInvariant, PTL

-----------------------------------------------------------------------------
\* The size of the map.
DonePrompts == {p \in AcpPrompts : prompt[p].pc = "done"}

LEMMA MappedSize ==
    ASSUME NEW map \in [AcpSessions -> {NoEntry} \cup Entries], NEW s \in AcpSessions,
           NEW e \in Entries
    PROVE  LET n == Cardinality(Mapped(map)) IN
           /\ n \in Nat
           /\ Cardinality(Mapped([map EXCEPT ![s] = e])) \in {n, n + 1}
           /\ s \in Mapped(map) => Cardinality(Mapped([map EXCEPT ![s] = e])) = n
           /\ s \in Mapped(map) => Cardinality(Mapped([map EXCEPT ![s] = NoEntry])) = n - 1
<1>1. IsFiniteSet(Mapped(map))
  BY FS_Subset DEF Mapped
<1>2. Mapped([map EXCEPT ![s] = e]) = Mapped(map) \cup {s}
  BY EntriesType DEF Mapped
<1>3. Mapped([map EXCEPT ![s] = NoEntry]) = Mapped(map) \ {s}
  BY DEF Mapped
<1>4. /\ Cardinality(Mapped(map)) \in Nat
      /\ Cardinality(Mapped(map) \cup {s})
            = IF s \in Mapped(map) THEN Cardinality(Mapped(map))
                                   ELSE Cardinality(Mapped(map)) + 1
      /\ Cardinality(Mapped(map) \ {s})
            = IF s \in Mapped(map) THEN Cardinality(Mapped(map)) - 1
                                   ELSE Cardinality(Mapped(map))
  BY <1>1, FS_CardinalityType, FS_AddElement, FS_RemoveElement
<1> QED
  BY <1>2, <1>3, <1>4

LEMMA DoneSize == /\ IsFiniteSet(DonePrompts) /\ Cardinality(DonePrompts) \in Nat
                  /\ IsFiniteSet(DonePrompts') /\ Cardinality(DonePrompts') \in Nat
                  /\ DonePrompts \subseteq DonePrompts' =>
                        Cardinality(DonePrompts) <= Cardinality(DonePrompts')
<1>1. IsFiniteSet(DonePrompts) /\ IsFiniteSet(DonePrompts')
  BY FS_Subset DEF DonePrompts
<1>2. Cardinality(DonePrompts) \in Nat /\ Cardinality(DonePrompts') \in Nat
  BY <1>1, FS_CardinalityType
<1>3. DonePrompts \subseteq DonePrompts' => Cardinality(DonePrompts) <= Cardinality(DonePrompts')
  BY <1>1, FS_Subset
<1> QED
  BY <1>1, <1>2, <1>3

\* No prompt that is over begins again.
LEMMA DoneGrows ==
    ASSUME AcpIInv, AcpNext
    PROVE  DonePrompts \subseteq DonePrompts'
<1>1. ASSUME NEW e PROVE \A p \in AcpPrompts : Aborting(prompt, e)[p].pc = prompt[p].pc
  BY AbortingType DEF AcpIInv, Good
<1>2. ASSUME NEW s \in AcpSessions,
             AcpNewSession(s) \/ AcpLoadSession(s) \/ AcpSetMode(s) \/ AcpCancel(s)
      PROVE  \A p \in AcpPrompts : prompt'[p].pc = prompt[p].pc
  <2>1. prompt' = prompt \/ \E e : prompt' = Aborting(prompt, e)
    <3>1. CASE AcpNewSession(s) \/ AcpLoadSession(s)
      <4>1. \E turns : Adding(s, FreeEntry, turns)
        BY <3>1 DEF AcpNewSession, AcpLoadSession
      <4> QED
        BY <4>1 DEF Adding, Evicting, Evicted, Becomes
    <3>2. CASE AcpSetMode(s)
      BY <3>2 DEF AcpSetMode
    <3>3. CASE AcpCancel(s)
      BY <3>3 DEF AcpCancel, Becomes
    <3> QED
      BY <1>2, <3>1, <3>2, <3>3
  <2> QED
    BY <1>1, <2>1
<1>3. ASSUME NEW p \in AcpPrompts,
             \/ AcpPrompt(p) \/ AcpCreate(p) \/ AcpRun(p) \/ AcpLoopSave(p) \/ AcpSave(p)
             \/ AcpDone(p) \/ AcpFails(p)
      PROVE  \A q \in AcpPrompts : prompt[q].pc = "done" => prompt'[q].pc = "done"
  <2>1. prompt \in [AcpPrompts -> Prompt] /\ prompt[p] \in Prompt
    BY DEF AcpIInv, Good
  <2>2. prompt[p].pc # "done"
    BY <1>3 DEF AcpPrompt, AcpCreate, AcpRun, AcpLoopSave, AcpSave, AcpDone, AcpFails
  <2>3. \A q \in AcpPrompts : q # p => prompt'[q] = prompt[q]
    BY <1>3, <2>1 DEF AcpPrompt, AcpCreate, AcpRun, AcpLoopSave, AcpSave, AcpDone, AcpFails,
                      Becomes
  <2> QED
    BY <2>2, <2>3
<1>4. ASSUME NEW p \in AcpPrompts, AcpAdmit(p)
      PROVE  \A q \in AcpPrompts : prompt[q].pc = "done" => prompt'[q].pc = "done"
  <2> DEFINE ps == [prompt EXCEPT ![p].pc = "preparing", ![p].entry = FreeEntry]
  <2>1. ps \in [AcpPrompts -> Prompt]
    <3>1. prompt[p] \in Prompt /\ FreeEntry \in Entries
      BY FreeFacts, PromptType
    <3> QED
      BY <3>1 DEF AcpIInv, Good, Prompt
  <2>2. \A q \in AcpPrompts : prompt[q].pc = "done" => ps[q].pc = "done"
    BY <1>4 DEF AcpAdmit, AcpIInv, Good
  <2>3. prompt' = ps \/ \E e \in Entries \cup {NoEntry} : prompt' = Aborting(ps, e)
    BY <1>4 DEF AcpAdmit, Evicting, Evicted, Becomes, Mapped, AcpIInv, Good
  <2> HIDE DEF ps
  <2>4. ASSUME NEW e PROVE \A q \in AcpPrompts : Aborting(ps, e)[q].pc = ps[q].pc
    BY <2>1, AbortingType
  <2> QED
    BY <2>2, <2>3, <2>4
<1> QED
  BY <1>2, <1>3, <1>4 DEF AcpNext, DonePrompts

LEMMA MapBounded ==
    ASSUME AcpIInv, MapIsBounded, [AcpNext]_acpVars
    PROVE  MapIsBounded'
<1> DEFINE n == Cardinality(Mapped(sessions))
           d == Cardinality(DonePrompts)
<1>1. n \in Nat /\ n <= MAX_SESSIONS + 1 + d /\ d \in Nat /\ MAX_SESSIONS \in Nat
  <2>1. IsFiniteSet(Mapped(sessions))
    BY FS_Subset DEF Mapped
  <2> QED
    BY <2>1, FS_CardinalityType, DoneSize DEF MapIsBounded, DonePrompts
<1>2. CASE UNCHANGED acpVars
  BY <1>2 DEF acpVars, MapIsBounded, Mapped
<1>3. CASE AcpNext
  <2>1. Cardinality(DonePrompts') \in Nat /\ d <= Cardinality(DonePrompts')
    BY <1>3, DoneSize, DoneGrows
  <2>2. SUFFICES Cardinality(Mapped(sessions')) <= MAX_SESSIONS + 1 + Cardinality(DonePrompts')
    BY DEF MapIsBounded, DonePrompts, Mapped
  <2>3. sessions \in [AcpSessions -> {NoEntry} \cup Entries] /\ FreeEntry \in Entries
    BY FreeFacts DEF AcpIInv, Good
  <2>4. ASSUME sessions' = sessions
        PROVE  Cardinality(Mapped(sessions')) <= MAX_SESSIONS + 1 + Cardinality(DonePrompts')
    BY <1>1, <2>1, <2>4
  <2>5. ASSUME NEW s \in AcpSessions, NEW turns, Adding(s, FreeEntry, turns)
        PROVE  Cardinality(Mapped(sessions')) <= MAX_SESSIONS + 1 + Cardinality(DonePrompts')
    <3> DEFINE map == [sessions EXCEPT ![s] = FreeEntry]
    <3>1. /\ map \in [AcpSessions -> {NoEntry} \cup Entries]
          /\ Cardinality(Mapped(map)) \in {n, n + 1} /\ Cardinality(Mapped(map)) \in Nat
      BY <1>1, <2>3, MappedSize
    <3>2. \/ sessions' = map /\ Cardinality(Mapped(map)) <= MAX_SESSIONS
          \/ \E t \in Mapped(map) : sessions' = [map EXCEPT ![t] = NoEntry]
      BY <2>5 DEF Adding, Evicting, Becomes
    <3> HIDE DEF map
    <3>3. ASSUME NEW t \in Mapped(map), sessions' = [map EXCEPT ![t] = NoEntry]
          PROVE  Cardinality(Mapped(sessions')) = Cardinality(Mapped(map)) - 1
      <4>1. t \in AcpSessions
        BY DEF Mapped
      <4> QED
        BY <2>3, <3>1, <3>3, <4>1, MappedSize
    <3> QED
      BY <1>1, <2>1, <3>1, <3>2, <3>3
  <2>6. ASSUME NEW p \in AcpPrompts, AcpAdmit(p)
        PROVE  Cardinality(Mapped(sessions')) <= MAX_SESSIONS + 1 + Cardinality(DonePrompts')
    <3> DEFINE s == prompt[p].of
               map == [sessions EXCEPT ![s] = FreeEntry]
    <3>1. s \in AcpSessions
      BY PromptType DEF Prompt
    <3>2. /\ map \in [AcpSessions -> {NoEntry} \cup Entries]
          /\ Cardinality(Mapped(map)) \in {n, n + 1} /\ Cardinality(Mapped(map)) \in Nat
          /\ s \in Mapped(sessions) => Cardinality(Mapped(map)) = n
      BY <1>1, <2>3, <3>1, MappedSize
    <3>3. \/ sessions' = map /\ n <= MAX_SESSIONS
          \/ \E t \in Mapped(sessions) :
                sessions' = [sessions EXCEPT ![t] = NoEntry, ![s] = FreeEntry]
      BY <2>6 DEF AcpAdmit, Evicting, Becomes
    <3> HIDE DEF map
    <3>4. CASE sessions' = map /\ n <= MAX_SESSIONS
      BY <1>1, <2>1, <3>2, <3>4
    <3>5. ASSUME NEW t \in Mapped(sessions),
                 sessions' = [sessions EXCEPT ![t] = NoEntry, ![s] = FreeEntry]
          PROVE  Cardinality(Mapped(sessions')) <= n
      <4>1. t \in AcpSessions
        BY DEF Mapped
      <4>2. CASE t = s
        <5>1. sessions' = map
          BY <2>3, <3>1, <3>5, <4>2 DEF map
        <5> QED
          BY <1>1, <3>2, <4>2, <5>1
      <4>3. CASE t # s
        <5>1. sessions' = [map EXCEPT ![t] = NoEntry] /\ t \in Mapped(map)
          BY <2>3, <3>1, <3>5, <4>1, <4>3 DEF Mapped, map
        <5>2. Cardinality(Mapped(sessions')) = Cardinality(Mapped(map)) - 1
          BY <2>3, <3>2, <4>1, <5>1, MappedSize
        <5> QED
          BY <1>1, <3>2, <5>2
      <4> QED
        BY <4>2, <4>3
    <3>6. Cardinality(Mapped(sessions')) \in Nat
      <4>1. IsFiniteSet(Mapped(sessions'))
        BY FS_Subset DEF Mapped
      <4> QED
        BY <4>1, FS_CardinalityType
    <3> QED
      BY <1>1, <2>1, <3>4, <3>5, <3>6, <3>3
  <2>7. ASSUME NEW p \in AcpPrompts, AcpDone(p)
        PROVE  Cardinality(Mapped(sessions')) <= MAX_SESSIONS + 1 + Cardinality(DonePrompts')
    <3>1. prompt[p].of \in AcpSessions /\ prompt[p].entry \in Entries /\ prompt[p].pc = "saving"
      BY <2>7, PromptType DEF AcpDone, Prompt
    <3>2. sessions' = [sessions EXCEPT ![prompt[p].of] = prompt[p].entry]
      BY <2>7 DEF AcpDone, Becomes
    <3>3. Cardinality(Mapped(sessions')) \in {n, n + 1}
      BY <2>3, <3>1, <3>2, MappedSize
    <3>4. DonePrompts \cup {p} \subseteq DonePrompts' /\ p \notin DonePrompts
      BY <1>3, <2>7, <3>1, DoneGrows DEF AcpDone, Becomes, DonePrompts, AcpIInv, Good
    <3>5. d + 1 <= Cardinality(DonePrompts')
      <4>1. Cardinality(DonePrompts \cup {p}) = d + 1
        BY <3>4, DoneSize, FS_AddElement
      <4>2. Cardinality(DonePrompts \cup {p}) <= Cardinality(DonePrompts')
        BY <3>4, DoneSize, FS_Subset
      <4> QED
        BY <4>1, <4>2
    <3> QED
      BY <1>1, <2>1, <3>3, <3>5
  <2>8. \/ sessions' = sessions
        \/ \E s \in AcpSessions : Adding(s, FreeEntry, {}) \/ Adding(s, FreeEntry, stored[s])
        \/ \E p \in AcpPrompts : AcpAdmit(p) \/ AcpDone(p)
    BY <1>3 DEF AcpNext, AcpNewSession, AcpLoadSession, AcpSetMode, AcpCancel, AcpPrompt,
                AcpCreate, AcpRun, AcpLoopSave, AcpSave, AcpFails, Becomes
  <2> QED
    BY <2>4, <2>5, <2>6, <2>7, <2>8
<1> QED
  BY <1>2, <1>3

\* The map exceeds its size by one entry at most, and by those that prompts put back when
\* they end (butterfly-acp-agent.ts:95).
THEOREM AcpMapIsBounded == AcpSpec => []MapIsBounded
<1>1. AcpInit => MapIsBounded
  <2> SUFFICES ASSUME AcpInit PROVE MapIsBounded
    OBVIOUS
  <2>1. Mapped(sessions) = {}
    BY DEF AcpInit, AcpIdle, Mapped
  <2>2. Cardinality(Mapped(sessions)) = 0
    BY <2>1, FS_EmptySet
  <2> QED
    BY <2>2, DoneSize DEF MapIsBounded, DonePrompts
<1> QED
  BY <1>1, MapBounded, AcpInvariant, PTL DEF AcpSpec
-----------------------------------------------------------------------------
\* The turns of prompts that come one after the other.  Each of them that has been answered
\* is in the store, in the entry of the map, and in what the prompt at work has begun from.
Delivered(s) ==
    {p \in AcpPrompts : prompt[p].of = s /\ prompt[p].pc = "done" /\ p \in prompt[p].turns}

InOrder(s) ==
    /\ \A p, q \in AcpPrompts :
          prompt[p].of = s /\ prompt[p].pc \in Live /\ prompt[q].of = s /\ prompt[q].pc \in Live
          => p = q
    /\ \A p \in AcpPrompts : prompt[p].of = s =>
          prompt[p].pc # "created" /\ (prompt[p].pc = "new" => p \notin prompt[p].turns)

Handed(s) ==
    /\ Delivered(s) \subseteq stored[s]
    /\ sessions[s] # NoEntry => Delivered(s) \subseteq entry[sessions[s]].turns
    /\ \A p \in AcpPrompts : prompt[p].of = s =>
          /\ prompt[p].pc = "preparing" => Delivered(s) \subseteq entry[prompt[p].entry].turns
          /\ prompt[p].pc \in {"running", "saving"} => Delivered(s) \subseteq prompt[p].turns
          /\ prompt[p].pc = "saving" => prompt[p].turns \subseteq stored[s]

Complete(s) == InOrder(s) /\ Handed(s)

\* Nobody has worked on a session that is not stored.
UnknownIsUntouched ==
    \A s \in AcpSessions \ known :
        /\ sessions[s] = NoEntry
        /\ \A p \in AcpPrompts : prompt[p].of = s => prompt[p].pc \in {"new", "creating"}

TurnsInv == UnknownIsUntouched /\ \A s \in AcpSessions \ disturbed : Complete(s)

\* Nothing changes for a session, but that its entry may be taken out of the map.
SamePrompt(p) ==
    /\ prompt'[p].pc = prompt[p].pc /\ prompt'[p].entry = prompt[p].entry
    /\ prompt'[p].turns = prompt[p].turns

Keeps(s) ==
    /\ stored'[s] = stored[s]
    /\ sessions'[s] \in {sessions[s], NoEntry}
    /\ sessions'[s] # NoEntry => entry'[sessions[s]].turns = entry[sessions[s]].turns
    /\ \A p \in AcpPrompts :
          /\ prompt'[p].of = prompt[p].of
          /\ prompt[p].of = s =>
                /\ SamePrompt(p)
                /\ prompt[p].pc = "preparing" =>
                      entry'[prompt[p].entry].turns = entry[prompt[p].entry].turns

LEMMA KeepsComplete ==
    ASSUME NEW s \in AcpSessions, Complete(s), Keeps(s)
    PROVE  Complete(s)'
<1>1. Delivered(s)' = Delivered(s)
  BY DEF Delivered, Keeps, SamePrompt
<1>2. InOrder(s)'
  BY DEF Complete, InOrder, Keeps, SamePrompt
<1>3. Handed(s)'
  BY <1>1 DEF Complete, Handed, Keeps, SamePrompt
<1> QED
  BY <1>2, <1>3 DEF Complete

\* A step that is about one session.
LEMMA OthersKeep ==
    ASSUME TurnsInv, disturbed \subseteq disturbed', NEW s \in AcpSessions,
           \A t \in AcpSessions \ {s} : Keeps(t),
           s \notin disturbed' => Complete(s)', UnknownIsUntouched'
    PROVE  TurnsInv'
BY KeepsComplete DEF TurnsInv

LEMMA BecomesTurns ==
    ASSUME NEW map, NEW es, NEW ps, Becomes(map, es, ps)
    PROVE  /\ sessions' = map /\ prompt' = ps
           /\ \A s \in AcpSessions : map[s] \in Entries => entry'[map[s]] = es[map[s]]
           /\ \A p \in AcpPrompts : ps[p].entry \in Entries => entry'[ps[p].entry] = es[ps[p].entry]
BY DEF Becomes, Held

\* Evicting changes no transcript.
LEMMA EvictTurns ==
    ASSUME NEW map, NEW es \in [Entries -> Entry], NEW ps \in [AcpPrompts -> Prompt], NEW k,
           Evicting(map, es, ps, k)
    PROVE  /\ sessions' = map
           /\ \A p \in AcpPrompts :
                 /\ prompt'[p].of = ps[p].of /\ prompt'[p].pc = ps[p].pc
                 /\ prompt'[p].entry = ps[p].entry /\ prompt'[p].turns = ps[p].turns
                 /\ ps[p].entry \in Entries =>
                       entry'[ps[p].entry].turns = es[ps[p].entry].turns
           /\ \A s \in AcpSessions : map[s] \in Entries => entry'[map[s]].turns = es[map[s]].turns
<1> DEFINE es2 == [es EXCEPT ![k].evicted = TRUE, ![k].fired = TRUE]
           ps2 == Aborting(ps, k)
<1>1. Becomes(map, es2, ps2)
  BY DEF Evicting, Evicted
<1>2. \A e \in Entries : es2[e].turns = es[e].turns
  BY DEF Entry
<1>3. \A p \in AcpPrompts : /\ ps2[p].pc = ps[p].pc /\ ps2[p].of = ps[p].of
                            /\ ps2[p].entry = ps[p].entry /\ ps2[p].turns = ps[p].turns
  BY DEF Aborting, Prompt
<1> HIDE DEF es2, ps2
<1>4. /\ sessions' = map /\ prompt' = ps2
      /\ \A s \in AcpSessions : map[s] \in Entries => entry'[map[s]] = es2[map[s]]
      /\ \A p \in AcpPrompts : ps2[p].entry \in Entries => entry'[ps2[p].entry] = es2[ps2[p].entry]
  BY <1>1, BecomesTurns
<1> QED
  BY <1>2, <1>3, <1>4

\* A new entry, with the session's stored turns.
LEMMA AddingTurns ==
    ASSUME AcpIInv, NEW s \in AcpSessions, NEW turns \in Transcripts,
           Adding(s, FreeEntry, turns)
    PROVE  /\ \A t \in AcpSessions \ {s} : sessions'[t] \in {sessions[t], NoEntry}
           /\ \A t \in AcpSessions \ {s} :
                 sessions'[t] # NoEntry => entry'[sessions'[t]].turns = entry[sessions[t]].turns
           /\ sessions'[s] # NoEntry => entry'[sessions'[s]].turns = turns
           /\ \A p \in AcpPrompts :
                 /\ prompt'[p].of = prompt[p].of /\ SamePrompt(p)
                 /\ prompt[p].pc = "preparing" =>
                       entry'[prompt[p].entry].turns = entry[prompt[p].entry].turns
<1> DEFINE e == FreeEntry
           map == [sessions EXCEPT ![s] = e]
           es == [entry EXCEPT ![e].turns = turns]
<1>1. e \in Entries /\ e \notin Held(sessions, prompt)
  BY FreeFacts
<1> HIDE DEF e
<1>2. /\ es \in [Entries -> Entry] /\ es[e].turns = turns
      /\ \A d \in Entries \ {e} : es[d] = entry[d]
  BY <1>1 DEF AcpIInv, Good, Entry
<1>3. /\ map \in [AcpSessions -> {NoEntry} \cup Entries] /\ map[s] = e
      /\ \A t \in AcpSessions \ {s} : map[t] = sessions[t] /\ map[t] # e
  BY <1>1 DEF AcpIInv, Good, Held
<1>4. \A p \in AcpPrompts : prompt[p].entry # e
                            /\ (prompt[p].pc = "preparing" => prompt[p].entry \in Entries)
  BY <1>1, PromptType DEF Held
<1>5. \/ Becomes(map, es, prompt)
      \/ \E t \in Mapped(map) : Evicting([map EXCEPT ![t] = NoEntry], es, prompt, map[t])
  BY DEF Adding, e
<1>6. prompt \in [AcpPrompts -> Prompt]
  BY DEF AcpIInv, Good
<1> HIDE DEF map, es
<1>7. CASE Becomes(map, es, prompt)
  <2>1. /\ sessions' = map /\ prompt' = prompt
        /\ \A t \in AcpSessions : map[t] \in Entries => entry'[map[t]] = es[map[t]]
        /\ \A p \in AcpPrompts :
              prompt[p].entry \in Entries => entry'[prompt[p].entry] = es[prompt[p].entry]
    BY <1>7, BecomesTurns
  <2> QED
    BY <1>2, <1>3, <1>4, <2>1 DEF SamePrompt
<1>8. ASSUME NEW r \in Mapped(map), Evicting([map EXCEPT ![r] = NoEntry], es, prompt, map[r])
      PROVE  /\ \A t \in AcpSessions : sessions'[t] \in {map[t], NoEntry}
             /\ \A t \in AcpSessions :
                   sessions'[t] # NoEntry => entry'[sessions'[t]].turns = es[map[t]].turns
             /\ \A p \in AcpPrompts :
                   /\ prompt'[p].of = prompt[p].of /\ SamePrompt(p)
                   /\ prompt[p].entry \in Entries =>
                         entry'[prompt[p].entry].turns = es[prompt[p].entry].turns
  <2> DEFINE un == [map EXCEPT ![r] = NoEntry]
  <2>1. \A t \in AcpSessions : un[t] \in {map[t], NoEntry} /\ (un[t] # NoEntry => un[t] \in Entries)
    BY <1>3
  <2> HIDE DEF un
  <2>2. /\ sessions' = un
        /\ \A p \in AcpPrompts :
              /\ prompt'[p].of = prompt[p].of /\ prompt'[p].pc = prompt[p].pc
              /\ prompt'[p].entry = prompt[p].entry /\ prompt'[p].turns = prompt[p].turns
              /\ prompt[p].entry \in Entries =>
                    entry'[prompt[p].entry].turns = es[prompt[p].entry].turns
        /\ \A t \in AcpSessions : un[t] \in Entries => entry'[un[t]].turns = es[un[t]].turns
    BY <1>2, <1>6, <1>8, EvictTurns DEF un
  <2> QED
    BY <2>1, <2>2 DEF SamePrompt
<1>9. CASE \E r \in Mapped(map) : Evicting([map EXCEPT ![r] = NoEntry], es, prompt, map[r])
  <2>1. /\ \A t \in AcpSessions : sessions'[t] \in {map[t], NoEntry}
        /\ \A t \in AcpSessions :
              sessions'[t] # NoEntry => entry'[sessions'[t]].turns = es[map[t]].turns
        /\ \A p \in AcpPrompts :
              /\ prompt'[p].of = prompt[p].of /\ SamePrompt(p)
              /\ prompt[p].entry \in Entries =>
                    entry'[prompt[p].entry].turns = es[prompt[p].entry].turns
    BY <1>8, <1>9
  <2>2. \A t \in AcpSessions \ {s} :
           sessions'[t] # NoEntry => entry'[sessions'[t]].turns = entry[sessions[t]].turns
    BY <1>2, <1>3, <2>1
  <2>3. \A p \in AcpPrompts : prompt[p].pc = "preparing" =>
           entry'[prompt[p].entry].turns = entry[prompt[p].entry].turns
    BY <1>2, <1>4, <2>1
  <2> QED
    BY <1>2, <1>3, <2>1, <2>2, <2>3
<1> QED
  BY <1>5, <1>7, <1>9

-----------------------------------------------------------------------------
LEMMA AcpNewTurns ==
    ASSUME AcpIInv, TurnsInv, NEW s \in AcpSessions, AcpNewSession(s)
    PROVE  TurnsInv'
<1>1. /\ s \notin known /\ known' = known \cup {s}
      /\ Adding(s, FreeEntry, {}) /\ stored' = stored /\ disturbed' = disturbed
  BY DEF AcpNewSession
<1>2. {} \in Transcripts
  BY DEF Transcripts
<1>3. /\ \A t \in AcpSessions \ {s} : sessions'[t] \in {sessions[t], NoEntry}
      /\ \A t \in AcpSessions \ {s} :
            sessions'[t] # NoEntry => entry'[sessions'[t]].turns = entry[sessions[t]].turns
      /\ \A p \in AcpPrompts :
            /\ prompt'[p].of = prompt[p].of /\ SamePrompt(p)
            /\ prompt[p].pc = "preparing" =>
                  entry'[prompt[p].entry].turns = entry[prompt[p].entry].turns
  BY <1>1, <1>2, AddingTurns
<1>4. \A t \in AcpSessions \ {s} : Keeps(t)
  BY <1>1, <1>3 DEF Keeps
<1>5. UnknownIsUntouched'
  BY <1>1, <1>3 DEF TurnsInv, UnknownIsUntouched, SamePrompt
<1>6. s \notin disturbed' => Complete(s)'
  <2> SUFFICES ASSUME s \notin disturbed PROVE Complete(s)'
    BY <1>1
  <2>1. \A p \in AcpPrompts : prompt'[p].of = s => prompt'[p].pc \in {"new", "creating"}
    BY <1>1, <1>3 DEF TurnsInv, UnknownIsUntouched, SamePrompt
  <2>2. Delivered(s)' = {}
    BY <2>1 DEF Delivered
  <2>3. InOrder(s)'
    BY <1>3 DEF TurnsInv, Complete, InOrder, SamePrompt
  <2> QED
    BY <2>1, <2>2, <2>3 DEF Complete, Handed
<1> QED
  BY <1>1, <1>4, <1>5, <1>6, OthersKeep

LEMMA AcpLoadTurns ==
    ASSUME AcpIInv, TurnsInv, NEW s \in AcpSessions, AcpLoadSession(s)
    PROVE  TurnsInv'
<1>1. /\ s \in known /\ known' = known
      /\ Adding(s, FreeEntry, stored[s]) /\ stored' = stored /\ disturbed' = disturbed
  BY DEF AcpLoadSession
<1>2. stored[s] \in Transcripts
  BY DEF AcpIInv, AcpStores
<1>3. /\ \A t \in AcpSessions \ {s} : sessions'[t] \in {sessions[t], NoEntry}
      /\ \A t \in AcpSessions \ {s} :
            sessions'[t] # NoEntry => entry'[sessions'[t]].turns = entry[sessions[t]].turns
      /\ sessions'[s] # NoEntry => entry'[sessions'[s]].turns = stored[s]
      /\ \A p \in AcpPrompts :
            /\ prompt'[p].of = prompt[p].of /\ SamePrompt(p)
            /\ prompt[p].pc = "preparing" =>
                  entry'[prompt[p].entry].turns = entry[prompt[p].entry].turns
  BY <1>1, <1>2, AddingTurns
<1>4. \A t \in AcpSessions \ {s} : Keeps(t)
  BY <1>1, <1>3 DEF Keeps
<1>5. UnknownIsUntouched'
  BY <1>1, <1>3 DEF TurnsInv, UnknownIsUntouched, SamePrompt
<1>6. s \notin disturbed' => Complete(s)'
  <2> SUFFICES ASSUME s \notin disturbed PROVE Complete(s)'
    BY <1>1
  <2>1. Complete(s)
    BY DEF TurnsInv
  <2>2. Delivered(s)' = Delivered(s)
    BY <1>3 DEF Delivered, SamePrompt
  <2>3. InOrder(s)'
    BY <1>3, <2>1 DEF Complete, InOrder, SamePrompt
  <2> QED
    BY <1>1, <1>3, <2>1, <2>2, <2>3 DEF Complete, Handed, SamePrompt
<1> QED
  BY <1>1, <1>4, <1>5, <1>6, OthersKeep

LEMMA AcpModeTurns ==
    ASSUME AcpIInv, TurnsInv, NEW s \in AcpSessions, AcpSetMode(s)
    PROVE  TurnsInv'
<1>1. /\ sessions[s] # NoEntry
      /\ stored' = [stored EXCEPT ![s] = entry[sessions[s]].turns]
      /\ disturbed' = disturbed \cup Busy(s)
      /\ sessions' = sessions /\ entry' = entry /\ prompt' = prompt /\ known' = known
  BY DEF AcpSetMode
<1>2. stored \in [AcpSessions -> Transcripts]
  BY DEF AcpIInv, AcpStores
<1>3. \A t \in AcpSessions \ {s} : Keeps(t)
  BY <1>1, <1>2 DEF Keeps, SamePrompt
<1>4. UnknownIsUntouched'
  BY <1>1 DEF TurnsInv, UnknownIsUntouched
<1>5. s \notin disturbed' => Complete(s)'
  <2> SUFFICES ASSUME s \notin disturbed' PROVE Complete(s)'
    OBVIOUS
  <2>1. Complete(s) /\ \A p \in AcpPrompts : prompt[p].of = s => prompt[p].pc \notin Live
    BY <1>1 DEF TurnsInv, Busy
  <2>2. Delivered(s)' = Delivered(s) /\ InOrder(s)'
    BY <1>1, <2>1 DEF Delivered, Complete, InOrder
  <2> QED
    BY <1>1, <1>2, <2>1, <2>2 DEF Complete, Handed
<1> QED
  BY <1>1, <1>3, <1>4, <1>5, OthersKeep

LEMMA AcpCancelTurns ==
    ASSUME AcpIInv, TurnsInv, NEW s \in AcpSessions, AcpCancel(s)
    PROVE  TurnsInv'
<1> DEFINE es == [entry EXCEPT ![sessions[s]].fired = FALSE]
           ps == Aborting(prompt, sessions[s])
<1>1. /\ Becomes(sessions, es, ps)
      /\ stored' = stored /\ known' = known /\ disturbed' = disturbed
  BY DEF AcpCancel
<1>2. \A e \in Entries : es[e].turns = entry[e].turns
  BY DEF AcpIInv, Good, Entry
<1>3. \A p \in AcpPrompts : /\ ps[p].pc = prompt[p].pc /\ ps[p].of = prompt[p].of
                            /\ ps[p].entry = prompt[p].entry /\ ps[p].turns = prompt[p].turns
                            /\ (prompt[p].pc = "preparing" => prompt[p].entry \in Entries)
  BY PromptType DEF Aborting, Prompt
<1> HIDE DEF es, ps
<1>4. /\ sessions' = sessions /\ prompt' = ps
      /\ \A t \in AcpSessions : sessions[t] \in Entries => entry'[sessions[t]] = es[sessions[t]]
      /\ \A p \in AcpPrompts : ps[p].entry \in Entries => entry'[ps[p].entry] = es[ps[p].entry]
  BY <1>1, BecomesTurns
<1>5. \A t \in AcpSessions : sessions[t] # NoEntry => sessions[t] \in Entries
  BY DEF AcpIInv, Good
<1>6. \A t \in AcpSessions : Keeps(t)
  BY <1>1, <1>2, <1>3, <1>4, <1>5 DEF Keeps, SamePrompt
<1>7. UnknownIsUntouched'
  BY <1>1, <1>3, <1>4 DEF TurnsInv, UnknownIsUntouched
<1> QED
  BY <1>1, <1>6, <1>7, KeepsComplete DEF TurnsInv

\* A prompt's step changes its own record only.
LEMMA AcpPromptTurns ==
    ASSUME AcpIInv, TurnsInv, NEW p \in AcpPrompts,
           NEW s \in AcpSessions, prompt[p].of = s, AcpPrompt(p)
    PROVE  TurnsInv'
<1> DEFINE e == sessions[s]
<1>1. /\ prompt[p].pc = "new"
      /\ prompt' = [prompt EXCEPT ![p].pc = IF e = NoEntry THEN "creating" ELSE "preparing",
                                  ![p].entry = e]
      /\ disturbed' = disturbed \cup Busy(s)
      /\ sessions' = sessions /\ entry' = entry /\ stored' = stored /\ known' = known
  BY DEF AcpPrompt
<1>2. s \in AcpSessions /\ prompt[p] \in Prompt
  BY PromptType DEF Prompt
<1>3. /\ prompt'[p].of = s /\ prompt'[p].entry = e /\ prompt'[p].turns = prompt[p].turns
      /\ e = NoEntry => prompt'[p].pc = "creating"
      /\ e # NoEntry => prompt'[p].pc = "preparing"
      /\ \A q \in AcpPrompts \ {p} : prompt'[q] = prompt[q]
  BY <1>1, <1>2 DEF AcpIInv, Good, Prompt
<1> HIDE DEF e
<1>4. prompt[p].of = s /\ sessions[s] = e
  BY DEF e
<1>5. \A t \in AcpSessions \ {s} : Keeps(t)
  BY <1>1, <1>3, <1>4 DEF Keeps, SamePrompt
<1>6. UnknownIsUntouched'
  <2>1. \A q \in AcpPrompts \ {p}, t \in AcpSessions \ known :
           prompt'[q].of = t => prompt'[q].pc \in {"new", "creating"}
    BY <1>3 DEF TurnsInv, UnknownIsUntouched
  <2>2. s \notin known => prompt'[p].pc = "creating"
    BY <1>2, <1>3, <1>4 DEF TurnsInv, UnknownIsUntouched
  <2>3. \A q \in AcpPrompts, t \in AcpSessions \ known :
           prompt'[q].of = t => prompt'[q].pc \in {"new", "creating"}
    <3> SUFFICES ASSUME NEW q \in AcpPrompts, NEW t \in AcpSessions \ known, prompt'[q].of = t
                 PROVE  prompt'[q].pc \in {"new", "creating"}
      OBVIOUS
    <3>1. CASE q = p
      BY <1>3, <2>2, <3>1
    <3>2. CASE q # p
      BY <2>1, <3>2
    <3> QED
      BY <3>1, <3>2
  <2> QED
    BY <1>1, <2>3 DEF TurnsInv, UnknownIsUntouched
<1>7. s \notin disturbed' => Complete(s)'
  <2> SUFFICES ASSUME s \notin disturbed' PROVE Complete(s)'
    OBVIOUS
  <2>1. Complete(s) /\ \A q \in AcpPrompts : prompt[q].of = s => prompt[q].pc \notin Live
    BY <1>1, <1>2 DEF TurnsInv, Busy
  <2>2. Delivered(s)' = Delivered(s)
    BY <1>1, <1>3, <1>4 DEF Delivered
  <2>3. InOrder(s) /\ Handed(s)
    BY <2>1 DEF Complete
  <2>4. \A q \in AcpPrompts \ {p} : prompt'[q].of = s => prompt'[q].pc \notin Live
    BY <1>3, <2>1
  <2>5. prompt'[p].pc = "preparing" => Delivered(s) \subseteq entry[prompt'[p].entry].turns
    BY <1>3, <1>4, <2>3 DEF Handed
  <2>6. prompt'[p].pc \in {"creating", "preparing"}
    BY <1>3
  <2>7. InOrder(s)'
    <3>1. \A q \in AcpPrompts \ {p} :
             prompt'[q].of = s /\ prompt'[q].pc = "new" => q \notin prompt'[q].turns
      BY <1>3, <2>3 DEF InOrder
    <3> QED
      BY <2>4, <2>6, <3>1 DEF InOrder
  <2>8. Handed(s)'
    BY <1>1, <2>2, <2>3, <2>4, <2>5, <2>6 DEF Handed
  <2> QED
    BY <2>7, <2>8 DEF Complete
<1> QED
  BY <1>1, <1>2, <1>5, <1>6, <1>7, OthersKeep

\* A failed prompt, and one that found no entry, disturb their session.
LEMMA AcpCreateTurns ==
    ASSUME AcpIInv, TurnsInv, NEW p \in AcpPrompts,
           NEW s \in AcpSessions, prompt[p].of = s, AcpCreate(p)
    PROVE  TurnsInv'
<1>1. /\ s \in AcpSessions /\ prompt[p] \in Prompt
      /\ stored' = [stored EXCEPT ![s] = {}] /\ known' = known \cup {s}
      /\ disturbed' = disturbed \cup {s}
      /\ prompt' = [prompt EXCEPT ![p].pc = "created"]
      /\ sessions' = sessions /\ entry' = entry
  BY PromptType DEF AcpCreate, Prompt
<1>2. /\ \A q \in AcpPrompts : prompt'[q].of = prompt[q].of
      /\ \A q \in AcpPrompts \ {p} : prompt'[q] = prompt[q]
      /\ \A t \in AcpSessions \ {s} : stored'[t] = stored[t]
  BY <1>1 DEF AcpIInv, Good, AcpStores, Prompt
<1>3. \A t \in AcpSessions \ {s} : Keeps(t)
  BY <1>1, <1>2 DEF Keeps, SamePrompt
<1>4. UnknownIsUntouched'
  BY <1>1, <1>2 DEF TurnsInv, UnknownIsUntouched
<1> QED
  BY <1>1, <1>3, <1>4, OthersKeep

LEMMA AcpFailsTurns ==
    ASSUME AcpIInv, TurnsInv, NEW p \in AcpPrompts,
           NEW s \in AcpSessions, prompt[p].of = s, AcpFails(p)
    PROVE  TurnsInv'
<1> DEFINE ps == [prompt EXCEPT ![p].pc = "done", ![p].entry = NoEntry,
                                ![p].turns = {}, ![p].aborted = FALSE]
<1>1. /\ s \in AcpSessions /\ prompt[p] \in Prompt
      /\ Becomes(sessions, entry, ps) /\ prompt[p].pc \in {"preparing", "running"}
      /\ disturbed' = disturbed \cup {s} /\ stored' = stored /\ known' = known
  BY PromptType DEF AcpFails, Prompt
<1>2. /\ ps[p].of = s
      /\ \A q \in AcpPrompts \ {p} : ps[q] = prompt[q]
  BY <1>1 DEF AcpIInv, Good, Prompt
<1> HIDE DEF ps
<1>3. /\ sessions' = sessions /\ prompt' = ps
      /\ \A t \in AcpSessions : sessions[t] \in Entries => entry'[sessions[t]] = entry[sessions[t]]
      /\ \A q \in AcpPrompts : ps[q].entry \in Entries => entry'[ps[q].entry] = entry[ps[q].entry]
  BY <1>1, BecomesTurns
<1>4. /\ \A t \in AcpSessions : sessions[t] # NoEntry => sessions[t] \in Entries
      /\ \A q \in AcpPrompts : prompt[q].pc = "preparing" => prompt[q].entry \in Entries
  BY PromptType DEF AcpIInv, Good
<1>5. \A t \in AcpSessions \ {s} : Keeps(t)
  BY <1>1, <1>2, <1>3, <1>4 DEF Keeps, SamePrompt
<1>6. UnknownIsUntouched'
  BY <1>1, <1>2, <1>3 DEF TurnsInv, UnknownIsUntouched
<1> QED
  BY <1>1, <1>5, <1>6, OthersKeep

LEMMA AcpAdmitTurns ==
    ASSUME AcpIInv, TurnsInv, NEW p \in AcpPrompts,
           NEW s \in AcpSessions, prompt[p].of = s, AcpAdmit(p)
    PROVE  TurnsInv'
<1> DEFINE e == FreeEntry
           map == [sessions EXCEPT ![s] = e]
           ps == [prompt EXCEPT ![p].pc = "preparing", ![p].entry = e]
<1>1. /\ prompt[p].pc = "created"
      /\ stored' = stored /\ known' = known /\ disturbed' = disturbed
      /\ \/ Becomes(map, entry, ps)
         \/ \E t \in Mapped(sessions) :
               Evicting([sessions EXCEPT ![t] = NoEntry, ![s] = e], entry, ps, sessions[t])
  BY DEF AcpAdmit
<1>2. s \in AcpSessions /\ prompt[p] \in Prompt /\ e \in Entries
  BY PromptType, FreeFacts DEF Prompt
<1> HIDE DEF e
<1>3. /\ ps \in [AcpPrompts -> Prompt] /\ ps[p].of = s
      /\ \A q \in AcpPrompts \ {p} : ps[q] = prompt[q]
  BY <1>2 DEF AcpIInv, Good, Prompt
<1>4. /\ entry \in [Entries -> Entry]
      /\ \A t \in AcpSessions : sessions[t] # NoEntry => sessions[t] \in Entries
      /\ \A q \in AcpPrompts : prompt[q].pc = "preparing" => prompt[q].entry \in Entries
  BY PromptType DEF AcpIInv, Good
<1>5. s \in disturbed /\ s \in known
  BY <1>1, <1>2 DEF TurnsInv, Complete, InOrder, UnknownIsUntouched
<1> HIDE DEF ps
<1>6. /\ \A t \in AcpSessions \ {s} : sessions'[t] \in {sessions[t], NoEntry}
      /\ \A t \in AcpSessions \ {s} :
            sessions'[t] # NoEntry => entry'[sessions[t]].turns = entry[sessions[t]].turns
      /\ \A q \in AcpPrompts :
            /\ prompt'[q].of = ps[q].of /\ prompt'[q].pc = ps[q].pc
            /\ prompt'[q].entry = ps[q].entry /\ prompt'[q].turns = ps[q].turns
            /\ ps[q].entry \in Entries => entry'[ps[q].entry].turns = entry[ps[q].entry].turns
  <2>1. CASE Becomes(map, entry, ps)
    <3>1. \A t \in AcpSessions \ {s} : map[t] = sessions[t]
      BY DEF AcpIInv, Good
    <3> HIDE DEF map
    <3> QED
      BY <1>4, <2>1, <3>1, BecomesTurns
  <2>2. ASSUME NEW t \in Mapped(sessions),
               Evicting([sessions EXCEPT ![t] = NoEntry, ![s] = e], entry, ps, sessions[t])
        PROVE  /\ \A r \in AcpSessions \ {s} : sessions'[r] \in {sessions[r], NoEntry}
               /\ \A r \in AcpSessions \ {s} :
                     sessions'[r] # NoEntry => entry'[sessions[r]].turns = entry[sessions[r]].turns
               /\ \A q \in AcpPrompts :
                     /\ prompt'[q].of = ps[q].of /\ prompt'[q].pc = ps[q].pc
                     /\ prompt'[q].entry = ps[q].entry /\ prompt'[q].turns = ps[q].turns
                     /\ ps[q].entry \in Entries =>
                           entry'[ps[q].entry].turns = entry[ps[q].entry].turns
    <3> DEFINE un == [sessions EXCEPT ![t] = NoEntry, ![s] = e]
    <3>1. \A r \in AcpSessions \ {s} : un[r] \in {sessions[r], NoEntry}
      BY DEF AcpIInv, Good
    <3> HIDE DEF un
    <3>2. /\ sessions' = un
          /\ \A q \in AcpPrompts :
                /\ prompt'[q].of = ps[q].of /\ prompt'[q].pc = ps[q].pc
                /\ prompt'[q].entry = ps[q].entry /\ prompt'[q].turns = ps[q].turns
                /\ ps[q].entry \in Entries =>
                      entry'[ps[q].entry].turns = entry[ps[q].entry].turns
          /\ \A r \in AcpSessions : un[r] \in Entries => entry'[un[r]].turns = entry[un[r]].turns
      BY <1>3, <1>4, <2>2, EvictTurns DEF un
    <3> QED
      BY <1>4, <3>1, <3>2
  <2> QED
    BY <1>1, <2>1, <2>2
<1>7. \A t \in AcpSessions \ {s} : Keeps(t)
  BY <1>1, <1>3, <1>4, <1>6 DEF Keeps, SamePrompt
<1>8. UnknownIsUntouched'
  BY <1>1, <1>3, <1>5, <1>6 DEF TurnsInv, UnknownIsUntouched
<1> QED
  BY <1>1, <1>2, <1>5, <1>7, <1>8, OthersKeep

\* The run takes over what its entry has, adds its own, and hands both to the store.
LEMMA AcpRunTurns ==
    ASSUME AcpIInv, TurnsInv, NEW p \in AcpPrompts,
           NEW s \in AcpSessions, prompt[p].of = s,
           AcpRun(p) \/ AcpLoopSave(p) \/ AcpSave(p)
    PROVE  TurnsInv'
<1>1. s \in AcpSessions /\ prompt[p] \in Prompt /\ prompt \in [AcpPrompts -> Prompt]
  BY PromptType DEF Prompt, AcpIInv, Good
<1>2. /\ sessions' = sessions /\ entry' = entry /\ known' = known /\ disturbed' = disturbed
      /\ prompt'[p].of = s /\ prompt'[p].entry = prompt[p].entry
      /\ \A q \in AcpPrompts \ {p} : prompt'[q] = prompt[q]
      /\ \A t \in AcpSessions \ {s} : stored'[t] = stored[t]
      /\ \/ /\ prompt[p].pc = "preparing" /\ prompt'[p].pc = "running"
            /\ prompt'[p].turns = entry[prompt[p].entry].turns /\ stored'[s] = stored[s]
         \/ /\ prompt[p].pc = "running" /\ prompt'[p].pc \in {"running", "saving"}
            /\ prompt[p].turns \subseteq prompt'[p].turns /\ stored'[s] = prompt'[p].turns
  <2>1. CASE AcpRun(p)
    BY <1>1, <2>1 DEF AcpRun, Prompt
  <2>2. CASE AcpLoopSave(p)
    <3>1. stored'[s] = Result(p) /\ \A t \in AcpSessions \ {s} : stored'[t] = stored[t]
      BY <1>1, <2>2 DEF AcpLoopSave, AcpIInv, AcpStores
    <3> QED
      BY <1>1, <2>2, <3>1 DEF AcpLoopSave, Prompt, Result
  <2>3. CASE AcpSave(p)
    <3> DEFINE results == {Result(p)} \cup (IF prompt[p].aborted THEN {prompt[p].turns} ELSE {})
    <3>1. \A turns \in results : turns = Result(p) \/ turns = prompt[p].turns
      OBVIOUS
    <3>2. /\ \E turns \in results :
                /\ stored' = [stored EXCEPT ![prompt[p].of] = turns]
                /\ prompt' = [prompt EXCEPT ![p].pc = "saving", ![p].turns = turns,
                                            ![p].aborted = FALSE]
          /\ sessions' = sessions /\ entry' = entry /\ known' = known /\ disturbed' = disturbed
          /\ prompt[p].pc = "running"
      BY <2>3, Zenon DEF AcpSave
    <3> HIDE DEF results
    <3>3. PICK turns \in results :
             /\ stored' = [stored EXCEPT ![prompt[p].of] = turns]
             /\ prompt' = [prompt EXCEPT ![p].pc = "saving", ![p].turns = turns,
                                         ![p].aborted = FALSE]
      BY <3>2, Zenon
    <3>4. stored'[s] = turns /\ \A t \in AcpSessions \ {s} : stored'[t] = stored[t]
      BY <1>1, <3>3 DEF AcpIInv, AcpStores
    <3>5. turns = Result(p) \/ turns = prompt[p].turns
      BY <3>1
    <3>6. prompt[p].turns \subseteq turns
      BY <3>5 DEF Result
    <3>7. /\ prompt'[p].of = s /\ prompt'[p].entry = prompt[p].entry
          /\ prompt'[p].pc = "saving" /\ prompt'[p].turns = turns
          /\ \A q \in AcpPrompts \ {p} : prompt'[q] = prompt[q]
      BY <1>1, <3>3 DEF Prompt
    <3> QED
      BY <3>4, <3>6, <3>7, <3>2
  <2> QED
    BY <2>1, <2>2, <2>3
<1>3. prompt[p].of = s
  OBVIOUS
<1>4. \A t \in AcpSessions \ {s} : Keeps(t)
  BY <1>2, <1>3 DEF Keeps, SamePrompt
<1>5. UnknownIsUntouched'
  BY <1>2, <1>3 DEF TurnsInv, UnknownIsUntouched
<1>6. s \notin disturbed' => Complete(s)'
  <2> SUFFICES ASSUME s \notin disturbed PROVE Complete(s)'
    BY <1>2
  <2>1. InOrder(s) /\ Handed(s)
    BY <1>1 DEF TurnsInv, Complete
  <2>2. Delivered(s)' = Delivered(s)
    BY <1>2, <1>3 DEF Delivered
  <2>3. InOrder(s)'
    BY <1>2, <1>3, <2>1 DEF InOrder
  <2>4. Delivered(s) \subseteq prompt'[p].turns
    BY <1>2, <1>3, <2>1 DEF Handed
  <2>5. \A q \in AcpPrompts \ {p} : prompt[q].of = s => prompt[q].pc \notin Live
    BY <1>2, <1>3, <2>1 DEF InOrder
  <2>6. Handed(s)'
    BY <1>2, <1>3, <2>1, <2>2, <2>4, <2>5 DEF Handed
  <2> QED
    BY <2>3, <2>6 DEF Complete
<1> QED
  BY <1>1, <1>2, <1>4, <1>5, <1>6, OthersKeep

LEMMA AcpDoneTurns ==
    ASSUME AcpIInv, TurnsInv, NEW p \in AcpPrompts,
           NEW s \in AcpSessions, prompt[p].of = s, AcpDone(p)
    PROVE  TurnsInv'
<1> DEFINE e == prompt[p].entry
           map == [sessions EXCEPT ![s] = e]
           es == [entry EXCEPT ![e].turns = prompt[p].turns, ![e].evicted = FALSE]
           ps == [prompt EXCEPT ![p].pc = "done", ![p].entry = NoEntry, ![p].turns = @ \cap {p}]
<1>1. /\ prompt[p].pc = "saving" /\ Becomes(map, es, ps)
      /\ stored' = stored /\ known' = known /\ disturbed' = disturbed
  BY DEF AcpDone
<1>2. s \in AcpSessions /\ prompt[p] \in Prompt /\ e \in Entries
  BY <1>1, PromptType DEF Prompt
<1>3. /\ es[e].turns = prompt[p].turns
      /\ \A d \in Entries \ {e} : es[d] = entry[d]
  BY <1>2 DEF AcpIInv, Good, Entry
<1>4. /\ ps[p].of = s /\ ps[p].pc = "done" /\ ps[p].turns = prompt[p].turns \cap {p}
      /\ ps[p].entry = NoEntry
      /\ \A q \in AcpPrompts \ {p} : ps[q] = prompt[q]
  BY <1>2 DEF AcpIInv, Good, Prompt
<1>5. map[s] = e /\ \A t \in AcpSessions \ {s} : map[t] = sessions[t]
  BY <1>2 DEF AcpIInv, Good
<1>6. /\ \A t \in AcpSessions : sessions[t] # NoEntry => sessions[t] \in Entries
      /\ \A t \in AcpSessions \ {s} : sessions[t] # e
      /\ \A q \in AcpPrompts : prompt[q].pc = "preparing" => prompt[q].entry \in Entries
      /\ \A q \in AcpPrompts : prompt[q].entry = e => prompt[q].of = s
  BY <1>2, PromptType, EntriesType DEF AcpIInv, Good
<1> HIDE DEF map, es, ps
<1>7. /\ sessions' = map /\ prompt' = ps
      /\ \A t \in AcpSessions : map[t] \in Entries => entry'[map[t]] = es[map[t]]
      /\ \A q \in AcpPrompts : ps[q].entry \in Entries => entry'[ps[q].entry] = es[ps[q].entry]
  BY <1>1, BecomesTurns
<1>8. prompt[p].of = s
  OBVIOUS
<1> HIDE DEF e
<1>9. \A t \in AcpSessions \ {s} : Keeps(t)
  BY <1>1, <1>3, <1>4, <1>5, <1>6, <1>7, <1>8 DEF Keeps, SamePrompt
<1>10. UnknownIsUntouched'
  BY <1>1, <1>4, <1>5, <1>7, <1>8 DEF TurnsInv, UnknownIsUntouched
<1>11. s \notin disturbed' => Complete(s)'
  <2> SUFFICES ASSUME s \notin disturbed PROVE Complete(s)'
    BY <1>1
  <2>1. InOrder(s) /\ Handed(s)
    BY <1>2 DEF TurnsInv, Complete
  <2>2. Delivered(s)' \subseteq prompt[p].turns
    BY <1>1, <1>4, <1>7, <1>8, <2>1 DEF Delivered, Handed
  <2>3. \A q \in AcpPrompts : prompt'[q].of = s => prompt'[q].pc \notin Live
    BY <1>1, <1>4, <1>7, <1>8, <2>1 DEF InOrder
  <2>4. \A q \in AcpPrompts :
           prompt'[q].of = s /\ prompt'[q].pc = "new" => q \notin prompt'[q].turns
    BY <1>4, <1>7, <2>1 DEF InOrder
  <2>5. InOrder(s)'
    BY <2>3, <2>4 DEF InOrder
  <2>6. sessions'[s] = e /\ entry'[e].turns = prompt[p].turns
    BY <1>2, <1>3, <1>5, <1>7
  <2>7. prompt[p].turns \subseteq stored[s]
    BY <1>1, <1>8, <2>1 DEF Handed
  <2>8. Handed(s)'
    BY <1>1, <2>2, <2>3, <2>6, <2>7 DEF Handed
  <2> QED
    BY <2>8, <2>5 DEF Complete
<1> QED
  BY <1>1, <1>2, <1>9, <1>10, <1>11, OthersKeep

LEMMA AcpTurnsInit == AcpInit => TurnsInv
<1> SUFFICES ASSUME AcpInit PROVE TurnsInv
  OBVIOUS
<1>1. /\ sessions = [s \in AcpSessions |-> NoEntry]
      /\ \A p \in AcpPrompts : prompt[p].pc = "new" /\ prompt[p].turns = {}
  BY DEF AcpInit, AcpIdle
<1>2. ASSUME NEW s \in AcpSessions
      PROVE  sessions[s] = NoEntry /\ Delivered(s) = {} /\ InOrder(s)
  <2>1. Delivered(s) = {}
    BY <1>1 DEF Delivered
  <2>2. InOrder(s)
    BY <1>1 DEF InOrder
  <2> QED
    BY <1>1, <2>1, <2>2
<1> QED
  BY <1>1, <1>2 DEF TurnsInv, UnknownIsUntouched, Complete, Handed

\* Prompts of one session that come one after the other, each finding its session in the map,
\* leave the turns of all of them in the store (butterfly-acp-agent.ts:178-317).
THEOREM AcpTurnsAreKept == AcpSpec => []TurnsAreKept
<1>1. AcpIInv /\ TurnsInv /\ [AcpNext]_acpVars => TurnsInv'
  <2>1. TurnsInv /\ UNCHANGED acpVars => TurnsInv'
    BY DEF acpVars, TurnsInv, UnknownIsUntouched, Complete, InOrder, Handed, Delivered
  <2>2. AcpIInv => \A p \in AcpPrompts : prompt[p].of \in AcpSessions
    BY PromptType DEF Prompt
  <2> QED
    BY <2>1, <2>2, AcpNewTurns, AcpLoadTurns, AcpModeTurns, AcpCancelTurns, AcpPromptTurns,
       AcpCreateTurns, AcpAdmitTurns, AcpRunTurns, AcpDoneTurns, AcpFailsTurns DEF AcpNext
<1>2. AcpIInv /\ TurnsInv => TurnsAreKept
  <2> SUFFICES ASSUME AcpIInv, TurnsInv, NEW p \in AcpPrompts,
                      prompt[p].of \notin disturbed, p \in prompt[p].turns,
                      Busy(prompt[p].of) = {}
               PROVE  p \in stored[prompt[p].of]
    BY DEF TurnsAreKept
  <2>1. prompt[p].of \in AcpSessions /\ prompt[p] \in Prompt
    BY PromptType DEF Prompt
  <2>2. Complete(prompt[p].of)
    BY <2>1 DEF TurnsInv
  <2>3. prompt[p].pc \notin Live
    BY DEF Busy
  <2>4. prompt[p].pc = "done"
    BY <2>1, <2>2, <2>3 DEF Prompt, Complete, InOrder
  <2> QED
    BY <2>2, <2>4 DEF Complete, Handed, Delivered
<1> QED
  BY <1>1, <1>2, AcpTurnsInit, AcpInvariant, PTL DEF AcpSpec
=============================================================================
