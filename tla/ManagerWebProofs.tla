--------------------------- MODULE ManagerWebProofs ---------------------------
(***************************************************************************)
(* What the screens of the manager portal show and send, whatever the user *)
(* clicks and in whatever order answers come, for any number of clicks,    *)
(* pages, visits, runs, findings and polls.                                *)
(***************************************************************************)
EXTENDS ManagerWeb, FiniteSetTheorems, SequenceTheorems, TLAPS

-----------------------------------------------------------------------------
(* The crew editor *)

CrewForm == [crew : SUBSET Person, driver : Person \cup {None}, window : Window]
FreeForm == [window : Window]
EditorRow ==
  [visitId : Visit \cup {None}, shown : Visit \cup {None},
   assignment : [crew : SUBSET Person, driver : Person \cup {None},
                 status : {"none", "draft", "published"}, pinned : BOOLEAN],
   form : CrewForm, formVisit : Visit \cup {None}, reason : BOOLEAN, loading : BOOLEAN, error : BOOLEAN,
   check : {None} \cup [visit : Visit, form : CrewForm, eligible : BOOLEAN], checking : BOOLEAN,
   free : {None} \cup [visit : Visit, form : FreeForm], locking : BOOLEAN,
   saving : BOOLEAN, removing : BOOLEAN, astray : BOOLEAN]
LoadKinds == {"load", "reload"}
EditorCall ==
  [kind : LoadKinds \cup {"save", "remove", "lock"}, visit : Visit, form : CrewForm \cup {None}, current : BOOLEAN]
    \cup [kind : {"check"}, visit : Visit, form : CrewForm, current : BOOLEAN]
    \cup [kind : {"free"}, visit : Visit, form : FreeForm, current : BOOLEAN]

\* The newest load is of the visit that is open, and so is what is shown.
LoadsAgree(e, w) ==
  /\ \A c, d \in w : c.kind \in LoadKinds /\ c.current /\ d.kind \in LoadKinds /\ d.current => c.visit = d.visit
  /\ \A c \in w : c.kind \in LoadKinds /\ c.current /\ e.visitId # None /\ ~ e.astray => c.visit = e.visitId
  /\ e.visitId # None /\ ~ e.loading /\ ~ e.error /\ ~ e.astray => e.shown = e.visitId /\ e.formVisit = e.visitId

\* What is checked, or is being, is the form; who is free, is in its window.
ChecksAgree(e, w) ==
  /\ e.check # None => e.check.visit = e.visitId /\ e.check.form = e.form
  /\ \A c \in w : c.kind = "check" /\ c.current => c.visit = e.visitId /\ c.form = e.form
FreeAgrees(e, w) ==
  /\ e.free # None => e.free.visit = e.visitId /\ e.free.form.window = e.form.window
  /\ \A c \in w : c.kind = "free" /\ c.current => c.visit = e.visitId /\ c.form.window = e.form.window

EditorInv(e, w) ==
  e \in EditorRow /\ w \subseteq EditorCall /\ LoadsAgree(e, w) /\ ChecksAgree(e, w) /\ FreeAgrees(e, w)

LEMMA LateIs ==
  ASSUME NEW w \in SUBSET EditorCall, NEW kind
  PROVE  /\ Late(w, kind) \subseteq EditorCall
         /\ \A c \in Late(w, kind) : c.current => c \in w /\ c.kind # kind
<1>1. ASSUME NEW c \in w PROVE [c EXCEPT !.current = FALSE] \in EditorCall /\ [c EXCEPT !.current = FALSE].current = FALSE
  BY DEF EditorCall
<1> QED
  BY <1>1 DEF Late

LEMMA AsksIs ==
  ASSUME NEW w \in SUBSET EditorCall, NEW kind, NEW v, NEW f,
         [kind |-> kind, visit |-> v, form |-> f, current |-> TRUE] \in EditorCall
  PROVE  /\ Asks(w, kind, v, f) \subseteq EditorCall
         /\ \A c \in Asks(w, kind, v, f) : c.current =>
              \/ c \in w /\ c.kind # kind
              \/ c.kind = kind /\ c.visit = v /\ c.form = f
<1> DEFINE r == [kind |-> kind, visit |-> v, form |-> f, current |-> TRUE]
<1>1. r \in EditorCall /\ r.kind = kind /\ r.visit = v /\ r.form = f
  OBVIOUS
<1>2. Asks(w, kind, v, f) = Late(w, kind) \cup {r}
  BY DEF Asks
<1> HIDE DEF r
<1> QED
  BY <1>1, <1>2, LateIs

LEMMA LoadSentIs ==
  ASSUME NEW w \in SUBSET EditorCall, NEW kind \in LoadKinds, NEW v \in Visit
  PROVE  /\ LoadSent(w, kind, v) \subseteq EditorCall
         /\ \A c \in LoadSent(w, kind, v) : c.current =>
              \/ c \in w /\ c.kind \notin LoadKinds \cup {"free"}
              \/ c.kind = kind /\ c.visit = v
<1> DEFINE w1 == Late(w, "load")  w2 == Late(w1, "reload")  w3 == Late(w2, "free")
<1>1. w1 \subseteq EditorCall /\ \A c \in w1 : c.current => c \in w /\ c.kind # "load"
  BY LateIs
<1> HIDE DEF w1
<1>2. w2 \subseteq EditorCall /\ \A c \in w2 : c.current => c \in w1 /\ c.kind # "reload"
  BY <1>1, LateIs
<1> HIDE DEF w2
<1>3. w3 \subseteq EditorCall /\ \A c \in w3 : c.current => c \in w2 /\ c.kind # "free"
  BY <1>2, LateIs
<1> DEFINE r == [kind |-> kind, visit |-> v, form |-> None, current |-> TRUE]
<1>4. r \in EditorCall /\ r.kind = kind /\ r.visit = v
  BY DEF EditorCall
<1>5. LoadSent(w, kind, v) = w3 \cup {r}
  BY DEF LoadSent, w1, w2
<1> HIDE DEF w3, r
<1> QED
  BY <1>1, <1>2, <1>3, <1>4, <1>5 DEF LoadKinds

LEMMA CheckSentIs ==
  ASSUME NEW w \in SUBSET EditorCall, NEW e \in EditorRow
  PROVE  /\ CheckSent(w, e) \subseteq EditorCall
         /\ \A c \in CheckSent(w, e) : c.current =>
              \/ c \in w /\ c.kind # "check"
              \/ c.kind = "check" /\ c.visit = e.visitId /\ c.form = e.form
<1>1. CASE Checks(e)
  <2>1. e.visitId \in Visit /\ e.form \in CrewForm
    BY <1>1 DEF Checks, EditorRow
  <2>2. [kind |-> "check", visit |-> e.visitId, form |-> e.form, current |-> TRUE] \in EditorCall
    BY <2>1 DEF EditorCall
  <2> QED
    BY <1>1, <2>2, AsksIs DEF CheckSent
<1>2. CASE ~ Checks(e)
  BY <1>2, LateIs DEF CheckSent
<1> QED
  BY <1>1, <1>2

LEMMA FreeSentIs ==
  ASSUME NEW w \in SUBSET EditorCall, NEW e \in EditorRow
  PROVE  /\ FreeSent(w, e) \subseteq EditorCall
         /\ \A c \in FreeSent(w, e) : c.current =>
              \/ c \in w /\ c.kind # "free"
              \/ c.kind = "free" /\ c.visit = e.visitId /\ c.form.window = e.form.window
<1>1. CASE AsksFree(e)
  <2> DEFINE f == [window |-> e.form.window]
  <2>1. e.visitId \in Visit /\ e.form.window \in Window
    BY <1>1 DEF AsksFree, EditorRow, CrewForm
  <2>2. [kind |-> "free", visit |-> e.visitId, form |-> f, current |-> TRUE] \in EditorCall /\ f.window = e.form.window
    BY <2>1 DEF EditorCall, FreeForm
  <2>3. FreeSent(w, e) = Asks(w, "free", e.visitId, f)
    BY <1>1 DEF FreeSent
  <2> HIDE DEF f
  <2> QED
    BY <2>2, <2>3, AsksIs
<1>2. CASE ~ AsksFree(e)
  BY <1>2, LateIs DEF FreeSent
<1> QED
  BY <1>1, <1>2

\* A load takes the form and the list of who is free away, and nothing else.
LEMMA LoadsIs ==
  ASSUME NEW e \in EditorRow
  PROVE  /\ Loads(e) \in EditorRow
         /\ Loads(e).loading /\ Loads(e).free = None
         /\ Loads(e).visitId = e.visitId /\ Loads(e).form = e.form /\ Loads(e).check = e.check
         /\ Loads(e).astray = e.astray
BY ZenonT(60) DEF Loads, EditorRow

LEMMA CheckedIs ==
  ASSUME NEW e \in EditorRow
  PROVE  /\ Checked(e) \in EditorRow /\ Checked(e).check = None
         /\ Checked(e).visitId = e.visitId /\ Checked(e).form = e.form /\ Checked(e).free = e.free
         /\ Checked(e).astray = e.astray /\ Checked(e).loading = e.loading /\ Checked(e).error = e.error
         /\ Checked(e).shown = e.shown /\ Checked(e).formVisit = e.formVisit
<1>1. Checks(e) \in BOOLEAN
  BY DEF Checks
<1> QED
  BY <1>1 DEF Checked, EditorRow

LEMMA DrivenIs ==
  ASSUME NEW f \in CrewForm
  PROVE  Driven(f) \in CrewForm /\ Driven(f).window = f.window
BY DEF Driven, CrewForm

\* What touches neither the visit, the form nor what was answered.
LEMMA ElsewhereInTheEditor ==
  ASSUME NEW e, NEW w, EditorInv(e, w), NEW f \in EditorRow, NEW u \in SUBSET EditorCall,
         f.visitId = e.visitId, f.form = e.form, f.check = e.check, f.free = e.free, f.shown = e.shown,
         f.formVisit = e.formVisit, f.loading = e.loading, f.error = e.error, f.astray = e.astray,
         \A c \in u : c.current => c \in w \/ c.kind \in {"save", "remove", "lock"}
  PROVE  EditorInv(f, u)
<1>1. LoadsAgree(f, u)
  BY DEF EditorInv, LoadsAgree, LoadKinds
<1>2. ChecksAgree(f, u)
  BY DEF EditorInv, ChecksAgree
<1>3. FreeAgrees(f, u)
  BY DEF EditorInv, FreeAgrees
<1> QED
  BY <1>1, <1>2, <1>3 DEF EditorInv

\* A load begins: of the visit that is open, or of another and then astray.
LEMMA LoadBegins ==
  ASSUME NEW e, NEW w, EditorInv(e, w), NEW kind \in LoadKinds, NEW v \in Visit,
         NEW f \in EditorRow, NEW u \in SUBSET EditorCall,
         f.loading, f.free = None, f.visitId = e.visitId, f.form = e.form, f.check = e.check,
         f.astray \/ v = f.visitId,
         \A c \in u : c.current => \/ c \in w /\ c.kind \notin LoadKinds \cup {"free"}
                                   \/ c.kind = kind /\ c.visit = v
  PROVE  EditorInv(f, u)
<1>1. LoadsAgree(f, u)
  BY DEF EditorInv, LoadsAgree
<1>2. ChecksAgree(f, u)
  BY DEF EditorInv, ChecksAgree, LoadKinds
<1>3. FreeAgrees(f, u)
  BY DEF EditorInv, FreeAgrees, LoadKinds
<1> QED
  BY <1>1, <1>2, <1>3 DEF EditorInv

LEMMA OpenVisitKeeps ==
  ASSUME EditorInv(editor, wire), NEW v \in Visit, OpenVisit(v)
  PROVE  EditorInv(editor', wire')
<1> DEFINE o == [editor EXCEPT !.visitId = v, !.reason = FALSE]
           e == Loads(o)
           w == LoadSent(wire, "load", v)
<1>1. editor' = Checked(e) /\ wire' = CheckSent(w, e)
  BY DEF OpenVisit
<1>2. o \in EditorRow /\ o.visitId = v
  <2>1. editor \in EditorRow
    BY DEF EditorInv
  <2> QED
    BY ZenonT(60), <2>1 DEF EditorRow
<1> HIDE DEF o
<1>3. e \in EditorRow /\ e.visitId = v /\ e.loading /\ e.free = None
  BY <1>2, LoadsIs
<1>4. w \in SUBSET EditorCall /\ \A c \in w : c.current =>
        \/ c \in wire /\ c.kind \notin LoadKinds \cup {"free"}
        \/ c.kind = "load" /\ c.visit = v
  BY LoadSentIs DEF EditorInv, LoadKinds
<1> HIDE DEF e, w
<1>5. /\ editor' \in EditorRow /\ editor'.check = None /\ editor'.visitId = v /\ editor'.free = None
      /\ editor'.form = e.form /\ editor'.loading
  BY <1>1, <1>3, CheckedIs
<1>6. /\ wire' \subseteq EditorCall
      /\ \A c \in wire' : c.current => \/ c.kind = "check" /\ c.visit = v /\ c.form = editor'.form
                                       \/ c.kind \notin LoadKinds \cup {"free", "check"}
                                       \/ c.kind = "load" /\ c.visit = v
  BY <1>1, <1>3, <1>4, <1>5, CheckSentIs DEF LoadKinds
<1>7. LoadsAgree(editor', wire')
  BY <1>5, <1>6 DEF LoadsAgree, LoadKinds
<1>8. ChecksAgree(editor', wire')
  BY <1>5, <1>6 DEF ChecksAgree, LoadKinds
<1>9. FreeAgrees(editor', wire')
  BY <1>5, <1>6 DEF FreeAgrees, LoadKinds
<1> QED
  BY <1>5, <1>6, <1>7, <1>8, <1>9 DEF EditorInv

LEMMA CloseDrawerKeeps ==
  ASSUME EditorInv(editor, wire), CloseDrawer
  PROVE  EditorInv(editor', wire')
<1> DEFINE e == [editor EXCEPT !.visitId = None, !.reason = FALSE, !.free = None]
           w == CheckSent(wire, e)
<1>1. editor' = Checked(e) /\ wire' = Late(w, "free")
  BY DEF CloseDrawer
<1>2. e \in EditorRow /\ e.visitId = None /\ e.free = None /\ ~ Checks(e) /\ e.form = editor.form
  BY DEF EditorInv, EditorRow, Checks
<1> HIDE DEF e
<1>3. w \subseteq EditorCall /\ \A c \in w : c.current => c \in wire /\ c.kind # "check"
  BY <1>2, LateIs DEF CheckSent, EditorInv
<1> HIDE DEF w
<1>4. wire' \subseteq EditorCall /\ \A c \in wire' : c.current => c \in wire /\ c.kind \notin {"check", "free"}
  BY <1>1, <1>3, LateIs
<1>5. editor' \in EditorRow /\ editor'.check = None /\ editor'.visitId = None /\ editor'.free = None
  BY <1>1, <1>2, CheckedIs
<1>6. LoadsAgree(editor', wire')
  BY <1>4, <1>5 DEF LoadsAgree, EditorInv
<1>7. ChecksAgree(editor', wire') /\ FreeAgrees(editor', wire')
  BY <1>4, <1>5 DEF ChecksAgree, FreeAgrees
<1> QED
  BY <1>4, <1>5, <1>6, <1>7 DEF EditorInv

\* An assignment as a load brings it.
LEMMA AssignmentIs ==
  ASSUME NEW a \in Assignment
  PROVE  a \in [crew : SUBSET Person, driver : Person \cup {None},
                status : {"none", "draft", "published"}, pinned : BOOLEAN]
<1>1. CASE a = [crew |-> {}, driver |-> None, status |-> "none", pinned |-> FALSE]
  BY <1>1
<1>2. CASE \E p \in Person, s \in {"draft", "published"}, b \in BOOLEAN :
             a = [crew |-> {p}, driver |-> None, status |-> s, pinned |-> b]
  BY <1>2
<1> QED
  BY <1>1, <1>2 DEF Assignment

LEMMA FilledIs ==
  ASSUME NEW e \in EditorRow, NEW v \in Visit, NEW a \in Assignment
  PROVE  /\ Filled(e, v, a) \in EditorRow
         /\ Filled(e, v, a).visitId = e.visitId
         /\ Filled(e, v, a).shown = v /\ Filled(e, v, a).formVisit = v /\ Filled(e, v, a).free = None
         /\ Filled(e, v, a).astray <=> e.astray /\ v # e.visitId
<1> DEFINE f == [crew |-> a.crew, driver |-> a.driver, window |-> FirstWindow]
<1>0. FirstWindow \in Window
  BY EditorAssumption DEF FirstWindow
<1>1. f \in CrewForm
  BY <1>0, AssignmentIs DEF CrewForm
<1> HIDE DEF f
<1>2. Driven(f) \in CrewForm
  BY <1>1, DrivenIs
<1>3. Filled(e, v, a) =
        [e EXCEPT !.shown = v, !.assignment = a, !.formVisit = v, !.loading = FALSE, !.free = None,
                  !.form = Driven(f), !.astray = @ /\ v # e.visitId]
  BY DEF Filled, f
<1> DEFINE g == Driven(f)
<1>4. g \in CrewForm
  BY <1>2
<1>5. Filled(e, v, a) =
        [e EXCEPT !.shown = v, !.assignment = a, !.formVisit = v, !.loading = FALSE, !.free = None,
                  !.form = g, !.astray = @ /\ v # e.visitId]
  BY <1>3
<1> HIDE DEF g
<1>6. a \in [crew : SUBSET Person, driver : Person \cup {None},
             status : {"none", "draft", "published"}, pinned : BOOLEAN]
  BY AssignmentIs
<1> DEFINE stray == e.astray /\ v # e.visitId
<1>7. /\ Filled(e, v, a) =
            [e EXCEPT !.shown = v, !.assignment = a, !.formVisit = v, !.loading = FALSE, !.free = None,
                      !.form = g, !.astray = stray]
      /\ stray \in BOOLEAN /\ (stray <=> e.astray /\ v # e.visitId)
  BY <1>5
<1> HIDE DEF stray
<1>8. Filled(e, v, a) \in EditorRow
  BY ZenonT(60), <1>4, <1>6, <1>7 DEF EditorRow
<1>9. /\ Filled(e, v, a).visitId = e.visitId
      /\ Filled(e, v, a).shown = v /\ Filled(e, v, a).formVisit = v /\ Filled(e, v, a).free = None
      /\ Filled(e, v, a).astray = stray
  BY <1>7 DEF EditorRow
<1> QED
  BY <1>7, <1>8, <1>9

LEMMA LoadedKeeps ==
  ASSUME EditorInv(editor, wire), NEW c \in wire, NEW a \in Assignment, Loaded(c, a)
  PROVE  EditorInv(editor', wire')
<1> DEFINE w == wire \ {c}
           f == LetsGo(editor, c)
           e == Filled(f, c.visit, a)
<1>1. /\ c.kind \in LoadKinds
      /\ c.current => editor' = Checked(e) /\ wire' = FreeSent(CheckSent(w, e), e)
      /\ ~ c.current => editor' = f /\ wire' = w
  BY DEF Loaded, Newest, LoadKinds
<1>2. c \in EditorCall /\ c.visit \in Visit /\ w \in SUBSET EditorCall
  BY DEF EditorInv, EditorCall
<1>3. /\ f \in EditorRow /\ f.visitId = editor.visitId /\ f.form = editor.form /\ f.check = editor.check
      /\ f.free = editor.free /\ f.shown = editor.shown /\ f.formVisit = editor.formVisit
      /\ f.loading = editor.loading /\ f.error = editor.error /\ f.astray = editor.astray
  BY ZenonT(60) DEF EditorInv, EditorRow, LetsGo
<1>4. CASE ~ c.current
  BY <1>1, <1>2, <1>3, <1>4, ElsewhereInTheEditor
<1>5. CASE c.current
  <2>1. /\ e \in EditorRow /\ e.visitId = editor.visitId /\ e.shown = c.visit /\ e.formVisit = c.visit
        /\ e.free = None /\ (e.astray <=> editor.astray /\ c.visit # editor.visitId)
    BY <1>2, <1>3, FilledIs
  <2> DEFINE u == CheckSent(w, e)
  <2> HIDE DEF e, f
  <2>2. /\ u \in SUBSET EditorCall
        /\ \A d \in u : d.current => \/ d \in w /\ d.kind # "check"
                                     \/ d.kind = "check" /\ d.visit = e.visitId /\ d.form = e.form
    BY <1>2, <2>1, CheckSentIs
  <2> HIDE DEF u
  <2>3. /\ wire' \subseteq EditorCall
        /\ \A d \in wire' : d.current =>
             \/ d \in u /\ d.kind # "free"
             \/ d.kind = "free" /\ d.visit = e.visitId /\ d.form.window = e.form.window
    BY <1>1, <1>5, <2>1, <2>2, FreeSentIs DEF u
  <2>4. /\ editor' \in EditorRow /\ editor'.check = None /\ editor'.visitId = editor.visitId
        /\ editor'.form = e.form /\ editor'.free = None /\ editor'.astray = e.astray
        /\ editor'.shown = c.visit /\ editor'.formVisit = c.visit
    BY <1>1, <1>5, <2>1, CheckedIs
  <2>5. \A d \in wire' : d.current /\ d.kind \in LoadKinds => d \in wire /\ d.visit = c.visit
    BY <1>1, <1>5, <2>2, <2>3 DEF LoadKinds, EditorInv, LoadsAgree
  <2>6. LoadsAgree(editor', wire')
    BY <1>1, <1>5, <2>1, <2>4, <2>5 DEF EditorInv, LoadsAgree
  <2>7. ChecksAgree(editor', wire')
    BY <2>1, <2>2, <2>3, <2>4 DEF ChecksAgree
  <2>8. FreeAgrees(editor', wire')
    BY <2>1, <2>3, <2>4 DEF FreeAgrees
  <2> QED
    BY <2>3, <2>4, <2>6, <2>7, <2>8 DEF EditorInv
<1> QED
  BY <1>4, <1>5, <1>2 DEF EditorCall

LEMMA LoadFailsKeeps ==
  ASSUME EditorInv(editor, wire), NEW c \in wire, LoadFails(c)
  PROVE  EditorInv(editor', wire')
<1> DEFINE f == LetsGo(editor, c)
<1>1. wire' = wire \ {c} /\ editor' = [f EXCEPT !.loading = @ /\ ~c.current, !.error = @ \/ c.current]
  BY DEF LoadFails
<1>2. c \in EditorCall /\ c.kind \in LoadKinds /\ c.current \in BOOLEAN
  BY DEF LoadFails, EditorInv, EditorCall, LoadKinds
<1>3. /\ f \in EditorRow /\ f.visitId = editor.visitId /\ f.form = editor.form /\ f.check = editor.check
      /\ f.free = editor.free /\ f.shown = editor.shown /\ f.formVisit = editor.formVisit
      /\ f.loading = editor.loading /\ f.error = editor.error /\ f.astray = editor.astray
  BY ZenonT(60) DEF EditorInv, EditorRow, LetsGo
<1> HIDE DEF f
<1>4. CASE c.current
  <2>1. editor' = [f EXCEPT !.loading = FALSE, !.error = TRUE]
    BY <1>1, <1>3, <1>4 DEF EditorRow
  <2>2. /\ editor' \in EditorRow /\ editor'.visitId = editor.visitId /\ editor'.form = editor.form
        /\ editor'.check = editor.check /\ editor'.free = editor.free /\ editor'.error /\ editor'.astray = editor.astray
    BY <1>3, <2>1 DEF EditorRow
  <2>3. LoadsAgree(editor', wire')
    BY <1>1, <2>2 DEF EditorInv, LoadsAgree
  <2>4. ChecksAgree(editor', wire') /\ FreeAgrees(editor', wire')
    BY <1>1, <2>2 DEF EditorInv, ChecksAgree, FreeAgrees
  <2> QED
    BY <1>1, <2>2, <2>3, <2>4 DEF EditorInv
<1>5. CASE ~ c.current
  <2>1. editor' = f
    BY ZenonT(60), <1>1, <1>3, <1>5 DEF EditorRow
  <2> QED
    BY <1>1, <1>3, <2>1, ElsewhereInTheEditor DEF EditorInv
<1> QED
  BY <1>2, <1>4, <1>5

LEMMA AnswersKeep ==
  ASSUME EditorInv(editor, wire), NEW c \in wire, NEW eligible \in BOOLEAN,
         CheckArrives(c, eligible) \/ FreeArrives(c) \/ AdviceFails(c)
  PROVE  EditorInv(editor', wire')
<1>0. c \in EditorCall /\ editor \in EditorRow /\ wire' = wire \ {c}
  BY DEF EditorInv, CheckArrives, FreeArrives, AdviceFails
<1>1. CASE editor' = editor
  BY <1>0, <1>1, ElsewhereInTheEditor DEF EditorInv
<1>2. CASE CheckArrives(c, eligible) /\ c.current
  <2> DEFINE k == [visit |-> c.visit, form |-> c.form, eligible |-> eligible]
  <2>1. c.kind = "check" /\ editor' = [editor EXCEPT !.checking = FALSE, !.check = k]
    BY <1>2 DEF CheckArrives
  <2>2. k \in [visit : Visit, form : CrewForm, eligible : BOOLEAN] /\ k.visit = c.visit /\ k.form = c.form
    BY <1>0, <2>1 DEF EditorCall, LoadKinds
  <2>3. c.visit = editor.visitId /\ c.form = editor.form
    BY <1>2, <2>1 DEF EditorInv, ChecksAgree
  <2> HIDE DEF k
  <2>4. /\ editor' \in EditorRow /\ editor'.visitId = editor.visitId /\ editor'.form = editor.form
        /\ editor'.check = k /\ editor'.free = editor.free /\ editor'.shown = editor.shown
        /\ editor'.formVisit = editor.formVisit /\ editor'.loading = editor.loading
        /\ editor'.error = editor.error /\ editor'.astray = editor.astray
    BY <1>0, <2>1, <2>2 DEF EditorRow
  <2>5. LoadsAgree(editor', wire') /\ FreeAgrees(editor', wire')
    BY <1>0, <2>4 DEF EditorInv, LoadsAgree, FreeAgrees
  <2>6. ChecksAgree(editor', wire')
    BY <1>0, <2>2, <2>3, <2>4 DEF EditorInv, ChecksAgree
  <2> QED
    BY <1>0, <2>4, <2>5, <2>6 DEF EditorInv
<1>3. CASE FreeArrives(c) /\ c.current
  <2> DEFINE k == [visit |-> c.visit, form |-> c.form]
  <2>1. c.kind = "free" /\ editor' = [editor EXCEPT !.free = k]
    BY <1>3 DEF FreeArrives
  <2>2. k \in [visit : Visit, form : FreeForm] /\ k.visit = c.visit /\ k.form = c.form
    BY <1>0, <2>1 DEF EditorCall, LoadKinds
  <2>3. c.visit = editor.visitId /\ c.form.window = editor.form.window
    BY <1>3, <2>1 DEF EditorInv, FreeAgrees
  <2> HIDE DEF k
  <2>4. /\ editor' \in EditorRow /\ editor'.visitId = editor.visitId /\ editor'.form = editor.form
        /\ editor'.free = k /\ editor'.check = editor.check /\ editor'.shown = editor.shown
        /\ editor'.formVisit = editor.formVisit /\ editor'.loading = editor.loading
        /\ editor'.error = editor.error /\ editor'.astray = editor.astray
    BY <1>0, <2>1, <2>2 DEF EditorRow
  <2>5. LoadsAgree(editor', wire') /\ ChecksAgree(editor', wire')
    BY <1>0, <2>4 DEF EditorInv, LoadsAgree, ChecksAgree
  <2>6. FreeAgrees(editor', wire')
    BY <1>0, <2>2, <2>3, <2>4 DEF EditorInv, FreeAgrees
  <2> QED
    BY <1>0, <2>4, <2>5, <2>6 DEF EditorInv
<1>4. CASE editor' = [editor EXCEPT !.checking = FALSE]
  <2>1. /\ editor' \in EditorRow /\ editor'.visitId = editor.visitId /\ editor'.form = editor.form
        /\ editor'.free = editor.free /\ editor'.check = editor.check /\ editor'.shown = editor.shown
        /\ editor'.formVisit = editor.formVisit /\ editor'.loading = editor.loading
        /\ editor'.error = editor.error /\ editor'.astray = editor.astray
    BY <1>0, <1>4 DEF EditorRow
  <2> QED
    BY <1>0, <2>1, ElsewhereInTheEditor DEF EditorInv
<1> QED
  BY <1>1, <1>2, <1>3, <1>4 DEF CheckArrives, FreeArrives, AdviceFails

\* Whatever is edited is checked again, and a new window asks who is free in it.
LEMMA EditedKeeps ==
  ASSUME EditorInv(editor, wire), NEW f \in CrewForm, Edited(f)
  PROVE  EditorInv(editor', wire')
<1> DEFINE g == Driven(f)
           e == [editor EXCEPT !.form = g]
           u == CheckSent(wire, e)
<1>1. g \in CrewForm /\ g.window = f.window
  BY DrivenIs
<1>2. /\ f.window # editor.form.window => editor' = [Checked(e) EXCEPT !.free = None] /\ wire' = FreeSent(u, e)
      /\ f.window = editor.form.window => editor' = Checked(e) /\ wire' = u
  BY DEF Edited
<1> HIDE DEF g
<1>3. /\ e \in EditorRow /\ e.form = g /\ e.visitId = editor.visitId /\ e.free = editor.free
      /\ e.shown = editor.shown /\ e.formVisit = editor.formVisit /\ e.loading = editor.loading
      /\ e.error = editor.error /\ e.astray = editor.astray
  BY <1>1 DEF EditorInv, EditorRow
<1> HIDE DEF e
<1>4. /\ u \in SUBSET EditorCall
      /\ \A d \in u : d.current => \/ d \in wire /\ d.kind # "check"
                                   \/ d.kind = "check" /\ d.visit = e.visitId /\ d.form = e.form
  BY <1>3, CheckSentIs DEF EditorInv
<1> HIDE DEF u
<1>5. /\ Checked(e) \in EditorRow /\ Checked(e).form = g /\ Checked(e).visitId = editor.visitId
      /\ Checked(e).check = None /\ Checked(e).free = editor.free /\ Checked(e).shown = editor.shown
      /\ Checked(e).formVisit = editor.formVisit /\ Checked(e).loading = editor.loading
      /\ Checked(e).error = editor.error /\ Checked(e).astray = editor.astray
  BY <1>3, CheckedIs
<1>6. CASE f.window # editor.form.window
  <2> DEFINE h == Checked(e)
  <2>1. editor' = [h EXCEPT !.free = None]
    BY <1>2, <1>6
  <2> HIDE DEF h
  <2>2. /\ editor' \in EditorRow /\ editor'.form = g /\ editor'.visitId = editor.visitId
        /\ editor'.check = None /\ editor'.free = None /\ editor'.shown = editor.shown
        /\ editor'.formVisit = editor.formVisit /\ editor'.loading = editor.loading
        /\ editor'.error = editor.error /\ editor'.astray = editor.astray
    BY <1>5, <2>1 DEF EditorRow, h
  <2>3. /\ wire' \subseteq EditorCall
        /\ \A d \in wire' : d.current =>
             \/ d \in u /\ d.kind # "free"
             \/ d.kind = "free" /\ d.visit = e.visitId /\ d.form.window = e.form.window
    BY <1>2, <1>3, <1>4, <1>6, FreeSentIs
  <2>4. LoadsAgree(editor', wire')
    BY <1>4, <2>2, <2>3 DEF EditorInv, LoadsAgree, LoadKinds
  <2>5. ChecksAgree(editor', wire')
    BY <1>3, <1>4, <2>2, <2>3 DEF ChecksAgree
  <2>6. FreeAgrees(editor', wire')
    BY <1>3, <2>2, <2>3 DEF FreeAgrees
  <2> QED
    BY <2>2, <2>3, <2>4, <2>5, <2>6 DEF EditorInv
<1>7. CASE f.window = editor.form.window
  <2>1. editor' = Checked(e) /\ wire' = u
    BY <1>2, <1>7
  <2>2. LoadsAgree(editor', wire')
    BY <1>4, <1>5, <2>1 DEF EditorInv, LoadsAgree, LoadKinds
  <2>3. ChecksAgree(editor', wire')
    BY <1>3, <1>4, <1>5, <2>1 DEF ChecksAgree
  <2>4. FreeAgrees(editor', wire')
    BY <1>1, <1>4, <1>5, <1>7, <2>1 DEF EditorInv, FreeAgrees
  <2> QED
    BY <1>4, <1>5, <2>1, <2>2, <2>3, <2>4 DEF EditorInv
<1> QED
  BY <1>6, <1>7

LEMMA FormKeeps ==
  ASSUME EditorInv(editor, wire),
         \/ \E w \in Window : SetWindow(w)
         \/ \E p \in Person : AddMember(p) \/ RemoveMember(p) \/ ChooseDriver(p)
  PROVE  EditorInv(editor', wire')
<1>0. editor.form \in CrewForm
  BY DEF EditorInv, EditorRow
<1>1. ASSUME NEW w \in Window, SetWindow(w) PROVE EditorInv(editor', wire')
  <2>1. [editor.form EXCEPT !.window = w] \in CrewForm
    BY <1>0 DEF CrewForm
  <2> QED
    BY <1>1, <2>1, EditedKeeps DEF SetWindow
<1>2. ASSUME NEW p \in Person, AddMember(p) PROVE EditorInv(editor', wire')
  <2>1. [editor.form EXCEPT !.crew = @ \cup {p}] \in CrewForm
    BY <1>0 DEF CrewForm
  <2> QED
    BY <1>2, <2>1, EditedKeeps DEF AddMember
<1>3. ASSUME NEW p \in Person, RemoveMember(p) PROVE EditorInv(editor', wire')
  <2>1. [editor.form EXCEPT !.crew = @ \ {p}] \in CrewForm
    BY <1>0 DEF CrewForm
  <2> QED
    BY <1>3, <2>1, EditedKeeps DEF RemoveMember
<1>4. ASSUME NEW p \in Person, ChooseDriver(p) PROVE EditorInv(editor', wire')
  <2>1. [editor.form EXCEPT !.driver = p] \in CrewForm
    BY <1>0 DEF CrewForm
  <2> QED
    BY <1>4, <2>1, EditedKeeps DEF ChooseDriver
<1> QED
  BY <1>1, <1>2, <1>3, <1>4

\* Requests that change something leave the form alone until they are answered.
LEMMA SendingKeeps ==
  ASSUME EditorInv(editor, wire), Save \/ RemoveCrew \/ ToggleLock \/ TypeReason
  PROVE  EditorInv(editor', wire')
<1>0. editor \in EditorRow /\ wire \in SUBSET EditorCall
  BY DEF EditorInv
<1>1. /\ editor' \in EditorRow /\ editor'.visitId = editor.visitId /\ editor'.form = editor.form
      /\ editor'.free = editor.free /\ editor'.check = editor.check /\ editor'.shown = editor.shown
      /\ editor'.formVisit = editor.formVisit /\ editor'.loading = editor.loading
      /\ editor'.error = editor.error /\ editor'.astray = editor.astray
  <2>1. \/ editor' = [editor EXCEPT !.saving = TRUE]
        \/ editor' = [editor EXCEPT !.removing = TRUE]
        \/ editor' = [editor EXCEPT !.locking = TRUE]
        \/ editor' = [editor EXCEPT !.reason = TRUE]
    BY DEF Save, RemoveCrew, ToggleLock, TypeReason
  <2>2. CASE editor' = [editor EXCEPT !.saving = TRUE]
    BY <1>0, <2>2 DEF EditorRow
  <2>3. CASE editor' = [editor EXCEPT !.removing = TRUE]
    BY <1>0, <2>3 DEF EditorRow
  <2>4. CASE editor' = [editor EXCEPT !.locking = TRUE]
    BY <1>0, <2>4 DEF EditorRow
  <2>5. CASE editor' = [editor EXCEPT !.reason = TRUE]
    BY <1>0, <2>5 DEF EditorRow
  <2> QED
    BY <2>1, <2>2, <2>3, <2>4, <2>5
<1>2. CASE TypeReason
  BY <1>0, <1>1, <1>2, ElsewhereInTheEditor DEF TypeReason
<1>3. ASSUME NEW kind \in {"save", "remove", "lock"}, NEW f \in CrewForm \cup {None},
             wire' = Asks(wire, kind, editor.visitId, f), editor.visitId # None
      PROVE  EditorInv(editor', wire')
  <2>1. [kind |-> kind, visit |-> editor.visitId, form |-> f, current |-> TRUE] \in EditorCall
    BY <1>0, <1>3 DEF EditorCall, EditorRow
  <2>2. wire' \in SUBSET EditorCall /\ \A c \in wire' : c.current => c \in wire \/ c.kind = kind
    BY <1>0, <1>3, <2>1, AsksIs
  <2> QED
    BY <1>1, <1>3, <2>2, ElsewhereInTheEditor
<1>4. CASE Save
  BY <1>0, <1>3, <1>4 DEF Save, Savable, MayEdit, EditorRow
<1>5. CASE RemoveCrew
  BY <1>3, <1>5 DEF RemoveCrew, MayRemoveCrew, MayEdit
<1>6. CASE ToggleLock
  BY <1>3, <1>6 DEF ToggleLock, MayLock
<1> QED
  BY <1>2, <1>4, <1>5, <1>6

LEMMA RefusedKeeps ==
  ASSUME EditorInv(editor, wire), NEW c \in wire, Refused(c)
  PROVE  EditorInv(editor', wire')
<1>0. editor \in EditorRow /\ wire' \in SUBSET EditorCall /\ wire' \subseteq wire
  BY DEF EditorInv, Refused
<1>1. /\ editor' \in EditorRow /\ editor'.visitId = editor.visitId /\ editor'.form = editor.form
      /\ editor'.free = editor.free /\ editor'.check = editor.check /\ editor'.shown = editor.shown
      /\ editor'.formVisit = editor.formVisit /\ editor'.loading = editor.loading
      /\ editor'.error = editor.error /\ editor'.astray = editor.astray
  <2>1. \E b1, b2, b3 \in BOOLEAN : editor' = [editor EXCEPT !.saving = b1, !.removing = b2, !.locking = b3]
    <3>1. editor' = [editor EXCEPT !.saving = editor.saving /\ c.kind # "save",
                                   !.removing = editor.removing /\ c.kind # "remove",
                                   !.locking = editor.locking /\ c.kind # "lock"]
      BY DEF Refused
    <3> QED
      BY <3>1
  <2> QED
    BY ZenonT(60), <1>0, <2>1 DEF EditorRow
<1> QED
  BY <1>0, <1>1, ElsewhereInTheEditor

\* A save, a removal or a lock is answered: what was changed is loaded.
LEMMA ChangedKeeps ==
  ASSUME EditorInv(editor, wire), NEW c \in wire, Saved(c) \/ Removed(c) \/ Toggled(c)
  PROVE  EditorInv(editor', wire')
<1>0. editor \in EditorRow /\ c.visit \in Visit /\ wire \ {c} \in SUBSET EditorCall
  BY DEF EditorInv, EditorCall
<1>1. ASSUME NEW f \in EditorRow, f.visitId = editor.visitId, f.form = editor.form, f.check = editor.check,
             NEW kind \in LoadKinds, NEW e \in EditorRow,
             e.loading, e.free = None, e.visitId = f.visitId, e.form = f.form, e.check = f.check,
             e.astray \/ c.visit = e.visitId,
             editor' = e, wire' = LoadSent(wire \ {c}, kind, c.visit)
      PROVE  EditorInv(editor', wire')
  <2>1. /\ wire' \in SUBSET EditorCall
        /\ \A d \in wire' : d.current => \/ d \in wire /\ d.kind \notin LoadKinds \cup {"free"}
                                         \/ d.kind = kind /\ d.visit = c.visit
    BY <1>0, <1>1, LoadSentIs
  <2>2. /\ e.loading /\ e.free = None /\ e.visitId = editor.visitId /\ e.form = editor.form
        /\ e.check = editor.check /\ (e.astray \/ c.visit = e.visitId)
    BY <1>1
  <2>3. EditorInv(e, wire')
    BY <1>0, <2>1, <2>2, LoadBegins
  <2> QED
    BY <1>1, <2>3
<1>2. ASSUME NEW f \in EditorRow, f.visitId = editor.visitId, f.form = editor.form, f.check = editor.check,
             Reloads(f, wire, c)
      PROVE  EditorInv(editor', wire')
  <2> DEFINE g == Loads(f)
             e == [g EXCEPT !.astray = @ \/ c.visit # f.visitId]
  <2>1. /\ g \in EditorRow /\ g.loading /\ g.free = None /\ g.visitId = f.visitId /\ g.form = f.form
        /\ g.check = f.check
    BY LoadsIs
  <2>2. editor' = e /\ wire' = LoadSent(wire \ {c}, "load", c.visit)
    BY <1>2 DEF Reloads
  <2> HIDE DEF g
  <2>3. e \in EditorRow /\ e.loading /\ e.free = None /\ e.visitId = f.visitId /\ e.form = f.form /\ e.check = f.check
    BY <2>1 DEF EditorRow
  <2>4. e.astray \/ c.visit = e.visitId
    BY <2>1 DEF EditorRow
  <2> HIDE DEF e
  <2> QED
    BY <1>1, <1>2, <2>2, <2>3, <2>4 DEF LoadKinds
<1>3. CASE Saved(c)
  <2> DEFINE f == [editor EXCEPT !.saving = FALSE, !.reason = FALSE]
  <2>1. f \in EditorRow /\ f.visitId = editor.visitId /\ f.form = editor.form /\ f.check = editor.check
    BY ZenonT(60), <1>0 DEF EditorRow
  <2>2. Reloads(f, wire, c)
    BY <1>3 DEF Saved
  <2> HIDE DEF f
  <2> QED
    BY <1>2, <2>1, <2>2
<1>4. CASE Removed(c)
  <2> DEFINE f == [editor EXCEPT !.removing = FALSE]
  <2>1. f \in EditorRow /\ f.visitId = editor.visitId /\ f.form = editor.form /\ f.check = editor.check
    BY ZenonT(60), <1>0 DEF EditorRow
  <2>2. Reloads(f, wire, c)
    BY <1>4 DEF Removed
  <2> HIDE DEF f
  <2> QED
    BY <1>2, <2>1, <2>2
<1>5. CASE Toggled(c) /\ editor.visitId = c.visit
  <2>1. editor' = Loads(editor) /\ wire' = LoadSent(wire \ {c}, "reload", c.visit)
    BY <1>5 DEF Toggled
  <2> QED
    BY <1>0, <1>1, <1>5, <2>1, LoadsIs DEF LoadKinds
<1>6. CASE Toggled(c) /\ editor.visitId # c.visit
  <2>1. editor' = [editor EXCEPT !.locking = FALSE] /\ wire' = wire \ {c}
    BY <1>6 DEF Toggled
  <2>2. /\ editor' \in EditorRow /\ editor'.visitId = editor.visitId /\ editor'.form = editor.form
        /\ editor'.free = editor.free /\ editor'.check = editor.check /\ editor'.shown = editor.shown
        /\ editor'.formVisit = editor.formVisit /\ editor'.loading = editor.loading
        /\ editor'.error = editor.error /\ editor'.astray = editor.astray
    BY <1>0, <2>1 DEF EditorRow
  <2> QED
    BY ZenonT(60), <1>0, <2>1, <2>2, ElsewhereInTheEditor
<1> QED
  BY <1>3, <1>4, <1>5, <1>6

LEMMA EditorStepKeeps ==
  ASSUME EditorInv(editor, wire), EditorNext \/ EditorAnswered
  PROVE  EditorInv(editor', wire')
<1>1. CASE EditorNext
  BY <1>1, OpenVisitKeeps, FormKeeps, CloseDrawerKeeps, SendingKeeps DEF EditorNext
<1>2. CASE EditorAnswered
  <2>1. PICK c \in wire :
          \/ \E a \in Assignment : Loaded(c, a)
          \/ \E b \in BOOLEAN : CheckArrives(c, b)
          \/ LoadFails(c) \/ FreeArrives(c) \/ AdviceFails(c) \/ Saved(c) \/ Removed(c) \/ Refused(c) \/ Toggled(c)
    BY <1>2 DEF EditorAnswered
  <2>2. CASE \E b \in BOOLEAN : CheckArrives(c, b)
    BY <2>2, AnswersKeep
  <2>3. CASE FreeArrives(c) \/ AdviceFails(c)
    BY <2>3, AnswersKeep
  <2> QED
    BY <2>1, <2>2, <2>3, LoadedKeeps, LoadFailsKeeps, ChangedKeeps, RefusedKeeps
<1> QED
  BY <1>1, <1>2

-----------------------------------------------------------------------------
(* The pages of lists *)

ListRow ==
  [of : Question, rows : Question \cup {None}, loading : BOOLEAN, error : BOOLEAN, busy : BOOLEAN,
   astray : BOOLEAN, crews : Question \cup {None}, operations : Question \cup {None}, open : BOOLEAN,
   impact : Question \cup {None}, previewing : BOOLEAN]
ReadKinds == {"rows", "crews", "operations"}
ListCall ==
  [kind : ReadKinds \cup {"change", "adjust", "preview", "generate"}, of : Question, current : BOOLEAN]
    \cup [kind : {"create"}, of : Question, current : BOOLEAN, left : Nat]

\* What is being read is one question, and it is that of the page, or the page is
\* astray; what a page at rest shows is the answer to its question.
RowsAgree(l, w) ==
  /\ \E x \in Question :
       /\ \A c \in w : c.kind \in ReadKinds /\ c.current => c.of = x
       /\ ~ l.astray => x = l.of
       /\ l.operations \in {None, x}
  /\ \A c \in w : c.kind = "crews" /\ c.current => l.rows = c.of
  /\ ~ l.loading /\ ~ l.error /\ ~ l.astray /\ l.rows # None => l.rows = l.of

\* Only the dispatch board reads crews and totals, and only a page whose handlers
\* reload their own question can go astray.
ScreensApart(s, l, w) ==
  /\ s # "dispatch" => l.operations = None /\ \A c \in w : c.current => c.kind \notin {"crews", "operations"}
  /\ s \in {"agreements", "calendar"} => ~ l.astray

\* The impact on show, or on its way, is that of the range in view.
ImpactAgrees(s, l, w) ==
  s = "visits" /\ l.open =>
    /\ l.impact \in {None, l.of}
    /\ \A c \in w : c.kind = "preview" /\ c.current => c.of = l.of

ListInv(s, l, w) ==
  l \in ListRow /\ w \subseteq ListCall /\ RowsAgree(l, w) /\ ScreensApart(s, l, w) /\ ImpactAgrees(s, l, w)

LEMMA ListCallIs ==
  ASSUME NEW c \in ListCall
  PROVE  /\ c.of \in Question /\ c.current \in BOOLEAN
         /\ [c EXCEPT !.current = FALSE] \in ListCall /\ ~ [c EXCEPT !.current = FALSE].current
         /\ [c EXCEPT !.current = FALSE].kind = c.kind
BY DEF ListCall

LEMMA RequestIs ==
  ASSUME NEW kind \in ReadKinds \cup {"change", "adjust", "preview", "generate"}, NEW q \in Question
  PROVE  /\ [kind |-> kind, of |-> q, current |-> TRUE] \in ListCall
         /\ [kind |-> kind, of |-> q, current |-> TRUE].kind = kind
         /\ [kind |-> kind, of |-> q, current |-> TRUE].of = q
BY DEF ListCall

LEMMA AskedIs ==
  ASSUME wire \subseteq ListCall, NEW kinds \in SUBSET ReadKinds, NEW q \in Question
  PROVE  /\ Asked(kinds, q) \subseteq ListCall
         /\ \A c \in Asked(kinds, q) : c.current =>
              \/ c \in wire /\ c.kind \notin kinds
              \/ c.kind \in kinds /\ c.of = q
<1>1. /\ Superseded(kinds) \subseteq ListCall
      /\ \A c \in Superseded(kinds) : c.current => c \in wire /\ c.kind \notin kinds
  BY ListCallIs DEF Superseded
<1> DEFINE asked == {[kind |-> k, of |-> q, current |-> TRUE] : k \in kinds}
<1>2. asked \subseteq ListCall /\ \A c \in asked : c.kind \in kinds /\ c.of = q
  BY RequestIs
<1>3. Asked(kinds, q) = Superseded(kinds) \cup asked
  BY DEF Asked
<1> HIDE DEF asked
<1> QED
  BY <1>1, <1>2, <1>3

\* A page that begins to read a question.
LEMMA ReadingAgrees ==
  ASSUME NEW l \in ListRow, NEW u, NEW q \in Question,
         l.loading, l.operations = None, l.astray \/ q = l.of,
         \A c \in u : c.current /\ c.kind \in ReadKinds => c.kind # "crews" /\ c.of = q
  PROVE  RowsAgree(l, u)
BY DEF RowsAgree, ReadKinds

\* A page that neither reads nor is answered.
LEMMA RestingAgrees ==
  ASSUME NEW k, NEW w, RowsAgree(k, w), NEW l \in ListRow, NEW u,
         l.of = k.of, l.rows = k.rows, l.astray = k.astray, l.operations = k.operations,
         k.loading /\ ~ l.loading => l.error, k.error => l.error,
         \A c \in u : c.current /\ c.kind \in ReadKinds => c \in w
  PROVE  RowsAgree(l, u)
BY DEF RowsAgree, ReadKinds, ListRow

\* The rows that were asked for arrive.
LEMMA ArrivalAgrees ==
  ASSUME NEW k \in ListRow, NEW w, RowsAgree(k, w), NEW c \in w, c.current, c.kind = "rows", c.of \in Question,
         \A d \in w : d.current => d.kind # "crews", NEW u \in SUBSET w
  PROVE  Shown(k, c.of) \in ListRow /\ RowsAgree(Shown(k, c.of), u)
<1> DEFINE stray == k.astray /\ c.of # k.of
<1>1. Shown(k, c.of) = [k EXCEPT !.rows = c.of, !.loading = FALSE, !.astray = stray]
  BY DEF Shown, ListRow
<1>2. stray \in BOOLEAN /\ (stray <=> k.astray /\ c.of # k.of)
  OBVIOUS
<1> HIDE DEF stray
<1> DEFINE l == Shown(k, c.of)
<1> HIDE DEF l
<1>a. l \in ListRow
  <2>1. ASSUME NEW r \in Question, NEW b \in BOOLEAN
        PROVE  [k EXCEPT !.rows = r, !.loading = FALSE, !.astray = b] \in ListRow
    BY DEF ListRow
  <2>2. stray \in BOOLEAN
    BY <1>2
  <2>3. [k EXCEPT !.rows = c.of, !.loading = FALSE, !.astray = stray] \in ListRow
    BY <2>1, <2>2
  <2> QED
    BY <1>1, <2>3 DEF l
<1>3. l.rows = c.of /\ l.astray = stray /\ l.of = k.of /\ l.operations = k.operations
  BY <1>1 DEF ListRow, l
<1>4. PICK x \in Question : /\ \A d \in w : d.kind \in ReadKinds /\ d.current => d.of = x
                            /\ ~ k.astray => x = k.of
                            /\ k.operations \in {None, x}
  BY DEF RowsAgree
<1>5. c.of = x
  BY <1>4 DEF ReadKinds
<1>6. RowsAgree(l, u)
  BY <1>2, <1>3, <1>4, <1>5 DEF RowsAgree
<1> QED
  BY <1>a, <1>6 DEF l

\* A page turns to another question, or a handler reads its own again.
LEMMA LoadingIs ==
  ASSUME NEW l \in ListRow, NEW q \in Question
  PROVE  /\ Loading(l, q) \in ListRow /\ Loading(l, q).of = q /\ Loading(l, q).loading
         /\ Loading(l, q).operations = l.operations /\ Loading(l, q).astray = l.astray
         /\ Loading(l, q).open = l.open /\ Loading(l, q).impact = l.impact
BY DEF Loading, ListRow

LEMMA PageAsks ==
  ASSUME screen \in {"agreements", "customers", "calendar"}, ListInv(screen, lists, wire),
         NEW q \in Question, lists' = Loading(lists, q), wire' = Asked({"rows"}, q)
  PROVE  ListInv(screen, lists', wire')
<1>1. lists \in ListRow /\ wire \subseteq ListCall /\ lists.operations = None
  BY DEF ListInv, ScreensApart
<1>2. /\ lists' \in ListRow /\ lists'.of = q /\ lists'.loading /\ lists'.operations = None
      /\ lists'.astray = lists.astray
  BY <1>1, LoadingIs
<1>3. /\ wire' \subseteq ListCall
      /\ \A c \in wire' : c.current => \/ c \in wire /\ c.kind # "rows"
                                       \/ c.kind = "rows" /\ c.of = q
  BY <1>1, AskedIs DEF ReadKinds
<1>4. \A c \in wire' : c.current => c.kind \notin {"crews", "operations"}
  BY <1>3 DEF ListInv, ScreensApart
<1>5. RowsAgree(lists', wire')
  BY <1>2, <1>3, <1>4, ReadingAgrees DEF ReadKinds
<1> QED
  BY <1>2, <1>3, <1>4, <1>5 DEF ListInv, ScreensApart, ImpactAgrees

LEMMA PageLoaded ==
  ASSUME screen \in ListPages \ {"dispatch"}, ListInv(screen, lists, wire), NEW c \in wire, c.kind = "rows",
         lists' = IF c.current THEN Shown(lists, c.of) ELSE lists, wire' = wire \ {c}
  PROVE  ListInv(screen, lists', wire')
<1>1. lists \in ListRow /\ wire \subseteq ListCall /\ c.of \in Question /\ c.current \in BOOLEAN
  BY ListCallIs DEF ListInv
<1>2. CASE c.current
  <2>1. lists' \in ListRow /\ RowsAgree(lists', wire')
    BY <1>1, <1>2, ArrivalAgrees DEF ListInv, ScreensApart
  <2> DEFINE stray == lists.astray /\ c.of # lists.of
  <2>2. lists' = [lists EXCEPT !.rows = c.of, !.loading = FALSE, !.astray = stray]
    BY <1>1, <1>2 DEF Shown, ListRow
  <2>3. stray \in BOOLEAN /\ (stray => lists.astray)
    OBVIOUS
  <2> HIDE DEF stray
  <2>4. /\ lists'.operations = lists.operations /\ lists'.open = lists.open /\ lists'.impact = lists.impact
        /\ lists'.of = lists.of /\ lists'.astray = stray
    BY <1>1, <2>2 DEF ListRow
  <2> QED
    BY <1>1, <2>1, <2>3, <2>4 DEF ListInv, ScreensApart, ImpactAgrees
<1>3. CASE ~ c.current
  <2>1. RowsAgree(lists', wire')
    BY <1>1, <1>3, RestingAgrees DEF ListInv
  <2> QED
    BY <1>1, <1>3, <2>1 DEF ListInv, ScreensApart, ImpactAgrees
<1> QED
  BY <1>1, <1>2, <1>3

LEMMA CustomersLoadedKeeps ==
  ASSUME ListInv(screen, lists, wire), NEW c \in wire, NEW empty \in BOOLEAN, CustomersLoaded(c, empty)
  PROVE  ListInv(screen, lists', wire')
<1>0. /\ lists \in ListRow /\ wire \subseteq ListCall /\ c.of \in Question /\ c.current \in BOOLEAN
      /\ screen = "customers" /\ c.kind = "rows"
  BY ListCallIs DEF ListInv, CustomersLoaded
<1>1. CASE ~ (c.current /\ empty /\ c.of > 1)
  BY <1>0, <1>1, PageLoaded DEF CustomersLoaded, ListPages
<1>2. CASE c.current /\ empty /\ c.of > 1 /\ lists.of = 1
  <2>1. lists' = [lists EXCEPT !.loading = FALSE] /\ wire' = wire \ {c}
    BY <1>2 DEF CustomersLoaded
  <2>2. /\ lists' \in ListRow /\ lists'.of = lists.of /\ lists'.rows = lists.rows /\ lists'.astray = lists.astray
        /\ lists'.operations = lists.operations
    BY <1>0, <2>1 DEF ListRow
  <2>3. lists.astray
    BY <1>0, <1>2, ListsAssumption DEF ListInv, RowsAgree, ReadKinds
  <2>4. RowsAgree(lists', wire')
    BY <2>1, <2>2, <2>3 DEF ListInv, RowsAgree
  <2> QED
    BY <1>0, <2>1, <2>2, <2>4 DEF ListInv, ScreensApart, ImpactAgrees
<1>3. CASE c.current /\ empty /\ c.of > 1 /\ lists.of # 1
  <2>1. lists' = Loading(lists, 1) /\ wire' = Asked({"rows"}, 1) \ {c} /\ 1 \in Question
    BY <1>3, ListsAssumption DEF CustomersLoaded
  <2>2. /\ lists' \in ListRow /\ lists'.of = 1 /\ lists'.loading /\ lists'.operations = None
    BY <1>0, <2>1, LoadingIs DEF ListInv, ScreensApart
  <2>3. /\ wire' \subseteq ListCall
        /\ \A d \in wire' : d.current => \/ d \in wire /\ d.kind # "rows"
                                         \/ d.kind = "rows" /\ d.of = 1
    BY <1>0, <2>1, AskedIs DEF ReadKinds
  <2>4. \A d \in wire' : d.current => d.kind \notin {"crews", "operations"}
    BY <1>0, <2>3 DEF ListInv, ScreensApart
  <2>5. RowsAgree(lists', wire')
    BY <2>1, <2>2, <2>3, <2>4, ReadingAgrees DEF ReadKinds
  <2> QED
    BY <1>0, <2>2, <2>3, <2>4, <2>5 DEF ListInv, ScreensApart, ImpactAgrees
<1> QED
  BY <1>0, <1>1, <1>2, <1>3

\* What leaves the question, the rows and what is read alone.
LEMMA ElsewhereOnThePage ==
  ASSUME ListInv(screen, lists, wire), NEW l \in ListRow, NEW u \in SUBSET ListCall,
         l.of = lists.of, l.rows = lists.rows, l.astray = lists.astray, l.operations = lists.operations,
         lists.loading /\ ~ l.loading => l.error, lists.error => l.error,
         l.open = lists.open, l.impact = lists.impact,
         \A c \in u : c.current /\ c.kind \in ReadKinds \cup {"preview"} => c \in wire
  PROVE  ListInv(screen, l, u)
<1>1. RowsAgree(l, u)
  BY RestingAgrees DEF ListInv
<1>2. ScreensApart(screen, l, u)
  BY DEF ListInv, ScreensApart, ReadKinds
<1>3. ImpactAgrees(screen, l, u)
  BY DEF ListInv, ImpactAgrees
<1> QED
  BY <1>1, <1>2, <1>3 DEF ListInv

\* A change is sent, or refused; a customer goes from site to site.
LEMMA SendsKeeps ==
  ASSUME ListInv(screen, lists, wire),
         AgreementsChange \/ CustomersSubmit \/ VisitsConfirmMove \/ DispatchChange \/ GenerateConfirms
  PROVE  ListInv(screen, lists', wire')
<1>0. lists \in ListRow /\ wire \subseteq ListCall
  BY DEF ListInv
<1>1. lists' = [lists EXCEPT !.busy = TRUE] \/ lists' = lists
  BY DEF AgreementsChange, CustomersSubmit, VisitsConfirmMove, DispatchChange, GenerateConfirms
<1>2. [lists EXCEPT !.busy = TRUE] \in ListRow
  BY <1>0 DEF ListRow
<1>3. /\ lists' \in ListRow /\ lists'.of = lists.of /\ lists'.rows = lists.rows /\ lists'.astray = lists.astray
      /\ lists'.operations = lists.operations /\ lists'.loading = lists.loading /\ lists'.error = lists.error
      /\ lists'.open = lists.open /\ lists'.impact = lists.impact
  <2>1. CASE lists' = lists
    BY <1>0, <2>1
  <2>2. CASE lists' = [lists EXCEPT !.busy = TRUE]
    BY <1>0, <1>2, <2>2 DEF ListRow
  <2> QED
    BY <1>1, <2>1, <2>2
<1>4. \E r \in ListCall : r.kind \in {"change", "adjust", "generate", "create"} /\ wire' = wire \cup {r}
  <2>1. CASE CustomersSubmit
    <3> DEFINE r == [kind |-> "create", of |-> lists.of, current |-> TRUE, left |-> MaxSites]
    <3>1. r \in ListCall /\ r.kind = "create"
      BY <1>0, ListsAssumption DEF ListCall, ListRow
    <3>2. wire' = wire \cup {r}
      BY <2>1 DEF CustomersSubmit
    <3> QED
      BY <3>1, <3>2
  <2>2. CASE \E kind \in {"change", "adjust", "generate"} : Sends(kind)
    <3>1. PICK kind \in {"change", "adjust", "generate"} : Sends(kind)
      BY <2>2
    <3> DEFINE r == [kind |-> kind, of |-> lists.of, current |-> TRUE]
    <3>2. lists.of \in Question
      BY <1>0 DEF ListRow
    <3>3. r \in ListCall /\ r.kind = kind
      BY <3>2, RequestIs
    <3>4. wire' = wire \cup {r}
      BY <3>1 DEF Sends
    <3> QED
      BY <3>3, <3>4
  <2> QED
    BY <2>1, <2>2 DEF AgreementsChange, VisitsConfirmMove, DispatchChange, GenerateConfirms
<1>5. wire' \subseteq ListCall /\ \A c \in wire' : c.kind \in ReadKinds \cup {"preview"} => c \in wire
  BY <1>0, <1>4 DEF ReadKinds
<1> QED
  BY <1>3, <1>5, ElsewhereOnThePage

LEMMA ListRefusedKeeps ==
  ASSUME ListInv(screen, lists, wire), NEW c \in wire,
         ListFails(c) \/ ChangeRefused(c) \/ CustomersRefused(c)
  PROVE  ListInv(screen, lists', wire')
<1>0. lists \in ListRow /\ wire \subseteq ListCall /\ wire' = wire \ {c}
  BY DEF ListInv, ListFails, ChangeRefused, CustomersRefused
<1>1. \/ lists' = lists
      \/ lists' = [lists EXCEPT !.loading = FALSE, !.error = TRUE]
      \/ \E b \in BOOLEAN : lists' = [lists EXCEPT !.busy = b]
  <2>1. CASE ListFails(c)
    BY <2>1 DEF ListFails
  <2>2. CASE ChangeRefused(c)
    <3>1. lists' = [lists EXCEPT !.busy = lists.busy /\ c.kind = "generate"]
      BY <2>2 DEF ChangeRefused
    <3> QED
      BY <3>1
  <2>3. CASE CustomersRefused(c)
    BY <2>3 DEF CustomersRefused
  <2> QED
    BY <2>1, <2>2, <2>3
<1>2. /\ lists' \in ListRow /\ lists'.of = lists.of /\ lists'.rows = lists.rows /\ lists'.astray = lists.astray
      /\ lists'.operations = lists.operations /\ lists'.open = lists.open /\ lists'.impact = lists.impact
      /\ (lists.loading /\ ~ lists'.loading => lists'.error) /\ (lists.error => lists'.error)
  <2>1. CASE lists' = [lists EXCEPT !.loading = FALSE, !.error = TRUE]
    BY <1>0, <2>1 DEF ListRow
  <2>2. CASE \E b \in BOOLEAN : lists' = [lists EXCEPT !.busy = b]
    BY <1>0, <2>2 DEF ListRow
  <2> QED
    BY <1>0, <1>1, <2>1, <2>2
<1> QED
  BY <1>0, <1>2, ElsewhereOnThePage

\* A handler reads its own question again.
LEMMA HandlerReloads ==
  ASSUME ListInv(screen, lists, wire), screen # "dispatch", NEW l \in ListRow, NEW c \in wire, NEW q \in Question,
         l.of = lists.of, l.loading, l.operations = lists.operations, l.astray \/ q = l.of,
         l.open => lists.open, l.impact = lists.impact, screen \in {"agreements", "calendar"} => ~ l.astray
  PROVE  ListInv(screen, l, Asked({"rows"}, q) \ {c})
<1> DEFINE u == Asked({"rows"}, q) \ {c}
<1>1. /\ u \subseteq ListCall
      /\ \A d \in u : d.current => \/ d \in wire /\ d.kind # "rows"
                                   \/ d.kind = "rows" /\ d.of = q
  BY AskedIs DEF ListInv, ReadKinds
<1> HIDE DEF u
<1>2. l.operations = None /\ \A d \in u : d.current => d.kind \notin {"crews", "operations"}
  BY <1>1 DEF ListInv, ScreensApart
<1>3. RowsAgree(l, u)
  BY <1>1, <1>2, ReadingAgrees DEF ReadKinds
<1>4. ImpactAgrees(screen, l, u)
  BY <1>1 DEF ListInv, ImpactAgrees
<1> QED
  BY <1>1, <1>2, <1>3, <1>4 DEF ListInv, ScreensApart, u

LEMMA HandlersKeep ==
  ASSUME ListInv(screen, lists, wire), NEW c \in wire,
         AgreementsChanged(c) \/ CustomersCreated(c) \/ VisitsAdjusted(c) \/ GenerateApplied(c)
  PROVE  ListInv(screen, lists', wire')
<1>0. lists \in ListRow /\ wire \subseteq ListCall /\ c \in ListCall /\ c.of \in Question /\ lists.of \in Question
  BY ListCallIs DEF ListInv, ListRow
<1> DEFINE stray == lists.astray \/ c.of # lists.of
<1>1. stray \in BOOLEAN /\ (stray \/ c.of = lists.of)
  OBVIOUS
<1>3. CASE AgreementsChanged(c)
  <2>1. /\ screen = "agreements" /\ wire' = Asked({"rows"}, lists.of) \ {c}
        /\ lists' = [lists EXCEPT !.busy = FALSE, !.loading = TRUE, !.error = FALSE]
    BY <1>3 DEF AgreementsChanged, Reload
  <2>2. /\ lists' \in ListRow /\ lists'.of = lists.of /\ lists'.loading /\ lists'.operations = lists.operations
        /\ lists'.astray = lists.astray /\ lists'.open = lists.open /\ lists'.impact = lists.impact
    BY <1>0, <2>1 DEF ListRow
  <2> QED
    BY <1>0, <2>1, <2>2, HandlerReloads DEF ListInv, ScreensApart
<1>4. ASSUME NEW b \in BOOLEAN, NEW o \in BOOLEAN, o => lists.open,
             lists' = [lists EXCEPT !.of = lists.of, !.loading = TRUE, !.error = FALSE, !.busy = b, !.open = o,
                                    !.astray = stray],
             screen \notin {"agreements", "calendar", "dispatch"}, wire' = Asked({"rows"}, c.of) \ {c}
      PROVE  ListInv(screen, lists', wire')
  <2> HIDE DEF stray
  <2>1. stray \in BOOLEAN
    BY <1>1
  <2>2. lists' \in ListRow
    <3>1. ASSUME NEW a \in BOOLEAN
          PROVE  [lists EXCEPT !.of = lists.of, !.loading = TRUE, !.error = FALSE, !.busy = b, !.open = o,
                               !.astray = a] \in ListRow
      BY <1>0 DEF ListRow
    <3>2. [lists EXCEPT !.of = lists.of, !.loading = TRUE, !.error = FALSE, !.busy = b, !.open = o,
                        !.astray = stray] \in ListRow
      BY <2>1, <3>1
    <3> QED
      BY <1>4, <3>2
  <2>3. /\ lists'.of = lists.of /\ lists'.loading /\ lists'.operations = lists.operations
        /\ lists'.astray = stray /\ lists'.open = o /\ lists'.impact = lists.impact
    BY <1>0, <1>4 DEF ListRow
  <2> QED
    BY <1>0, <1>1, <1>4, <2>2, <2>3, HandlerReloads
<1>5. CASE CustomersCreated(c) /\ c.left > 0
  <2> DEFINE r == [c EXCEPT !.left = @ - 1]
  <2>1. c.kind = "create" /\ c.left \in Nat /\ lists' = lists /\ wire' = (wire \ {c}) \cup {r}
    BY <1>0, <1>5 DEF CustomersCreated, ListCall, ReadKinds
  <2>2. r \in ListCall /\ r.kind = "create"
    BY <1>0, <1>5, <2>1 DEF ListCall, ReadKinds
  <2> HIDE DEF r
  <2>3. wire' \subseteq ListCall /\ \A d \in wire' : d.kind \in ReadKinds \cup {"preview"} => d \in wire
    BY <1>0, <2>1, <2>2 DEF ReadKinds
  <2> QED
    BY <1>0, <2>1, <2>3, ElsewhereOnThePage
<1>6. CASE CustomersCreated(c) /\ ~ (c.left > 0)
  <2>1. /\ screen = "customers" /\ wire' = Asked({"rows"}, c.of) \ {c}
        /\ lists' = [Loading(lists, lists.of) EXCEPT !.busy = FALSE, !.astray = stray]
    BY <1>0, <1>6 DEF CustomersCreated, Loading, ListRow
  <2>2. lists' = [lists EXCEPT !.of = lists.of, !.loading = TRUE, !.error = FALSE, !.busy = FALSE,
                               !.open = lists.open, !.astray = stray]
    BY <1>0, <2>1 DEF Loading, ListRow
  <2> HIDE DEF stray
  <2> QED
    BY <1>0, <1>4, <2>1, <2>2 DEF ListRow, stray
<1>7. CASE VisitsAdjusted(c)
  <2>1. /\ screen = "visits" /\ wire' = Asked({"rows"}, c.of) \ {c}
        /\ lists' = [Loading(lists, lists.of) EXCEPT !.busy = FALSE, !.astray = stray]
    BY <1>0, <1>7 DEF VisitsAdjusted, Loading, ListRow
  <2>2. lists' = [lists EXCEPT !.of = lists.of, !.loading = TRUE, !.error = FALSE, !.busy = FALSE,
                               !.open = lists.open, !.astray = stray]
    BY <1>0, <2>1 DEF Loading, ListRow
  <2> HIDE DEF stray
  <2> QED
    BY <1>0, <1>4, <2>1, <2>2 DEF ListRow, stray
<1>8. CASE GenerateApplied(c)
  <2>1. /\ screen = "visits" /\ wire' = Asked({"rows"}, c.of) \ {c}
        /\ lists' = [Loading(lists, lists.of) EXCEPT !.open = FALSE, !.astray = stray]
    BY <1>0, <1>8 DEF GenerateApplied, Loading, ListRow
  <2>2. lists' = [lists EXCEPT !.of = lists.of, !.loading = TRUE, !.error = FALSE, !.busy = lists.busy,
                               !.open = FALSE, !.astray = stray]
    BY <1>0, <2>1 DEF Loading, ListRow
  <2> HIDE DEF stray
  <2> QED
    BY <1>0, <1>4, <2>1, <2>2 DEF ListRow, stray
<1> QED
  BY <1>3, <1>5, <1>6, <1>7, <1>8

-----------------------------------------------------------------------------
(* The generation drawer *)

LEMMA PreviewIs ==
  ASSUME NEW l \in ListRow
  PROVE  /\ Preview(l) \in ListRow /\ Preview(l).of = l.of /\ Preview(l).rows = l.rows
         /\ Preview(l).loading = l.loading /\ Preview(l).error = l.error /\ Preview(l).astray = l.astray
         /\ Preview(l).operations = l.operations /\ Preview(l).open = l.open
         /\ l.open => Preview(l).impact = None
<1>1. CASE l.open
  <2>1. Preview(l) = [l EXCEPT !.previewing = TRUE, !.impact = None]
    BY <1>1 DEF Preview
  <2> QED
    BY <2>1 DEF ListRow
<1>2. CASE ~ l.open
  BY <1>2 DEF Preview
<1> QED
  BY <1>1, <1>2

LEMMA PreviewSentIs ==
  ASSUME NEW l \in ListRow, NEW w \in SUBSET ListCall, NEW q \in Question
  PROVE  /\ PreviewSent(l, w, q) \subseteq ListCall
         /\ \A c \in PreviewSent(l, w, q) : c.current =>
              \/ c \in w /\ (l.open => c.kind # "preview")
              \/ c.kind = "preview" /\ c.of = q
<1> DEFINE u == {IF c.kind = "preview" THEN [c EXCEPT !.current = FALSE] ELSE c : c \in w}
           r == [kind |-> "preview", of |-> q, current |-> TRUE]
<1>1. u \subseteq ListCall /\ \A c \in u : c.current => c \in w /\ c.kind # "preview"
  BY ListCallIs
<1>2. r \in ListCall /\ r.kind = "preview" /\ r.of = q
  BY RequestIs
<1>3. PreviewSent(l, w, q) = IF l.open THEN u \cup {r} ELSE w
  BY DEF PreviewSent
<1> HIDE DEF u, r
<1> QED
  BY <1>1, <1>2, <1>3

LEMMA DrawerKeeps ==
  ASSUME ListInv(screen, lists, wire),
         (\E q \in Question : VisitsMove(q)) \/ GenerateOpens \/ GenerateCloses
  PROVE  ListInv(screen, lists', wire')
<1>0. lists \in ListRow /\ wire \in SUBSET ListCall /\ lists.of \in Question /\ screen = "visits"
  BY DEF ListInv, ListRow, VisitsMove, GenerateOpens, GenerateCloses
<1>1. lists.operations = None /\ \A c \in wire : c.current => c.kind \notin {"crews", "operations"}
  BY <1>0 DEF ListInv, ScreensApart
<1>2. ASSUME NEW q \in Question, VisitsMove(q) PROVE ListInv(screen, lists', wire')
  <2> DEFINE l == Loading(lists, q)
             w == Asked({"rows"}, q)
  <2>1. lists' = Preview(l) /\ wire' = PreviewSent(lists, w, q)
    BY <1>2 DEF VisitsMove
  <2>2. /\ l \in ListRow /\ l.of = q /\ l.loading /\ l.operations = None /\ l.astray = lists.astray
        /\ l.open = lists.open
    BY <1>0, <1>1, LoadingIs
  <2>3. /\ w \in SUBSET ListCall
        /\ \A c \in w : c.current => \/ c \in wire /\ c.kind # "rows"
                                     \/ c.kind = "rows" /\ c.of = q
    BY <1>0, AskedIs DEF ReadKinds
  <2> HIDE DEF l, w
  <2>4. /\ wire' \subseteq ListCall
        /\ \A c \in wire' : c.current => \/ c \in w /\ (lists.open => c.kind # "preview")
                                         \/ c.kind = "preview" /\ c.of = q
    BY <1>0, <2>1, <2>3, PreviewSentIs
  <2>5. /\ lists' \in ListRow /\ lists'.of = q /\ lists'.loading /\ lists'.operations = None
        /\ lists'.open = lists.open /\ (lists.open => lists'.impact = None)
    BY <2>1, <2>2, PreviewIs
  <2>6. RowsAgree(lists', wire')
    BY <1>1, <2>3, <2>4, <2>5, ReadingAgrees DEF ReadKinds
  <2>7. ScreensApart(screen, lists', wire')
    BY <1>0, <1>1, <2>3, <2>4, <2>5 DEF ScreensApart
  <2>8. ImpactAgrees(screen, lists', wire')
    BY <2>4, <2>5 DEF ImpactAgrees
  <2> QED
    BY <2>4, <2>5, <2>6, <2>7, <2>8 DEF ListInv
<1>3. CASE GenerateOpens
  <2> DEFINE l == [lists EXCEPT !.open = TRUE]
  <2>1. lists' = Preview(l) /\ wire' = PreviewSent(lists', wire, lists.of)
    BY <1>3 DEF GenerateOpens
  <2>2. /\ l \in ListRow /\ l.of = lists.of /\ l.rows = lists.rows /\ l.loading = lists.loading
        /\ l.error = lists.error /\ l.operations = lists.operations /\ l.astray = lists.astray /\ l.open
    BY <1>0 DEF ListRow
  <2> HIDE DEF l
  <2>3. /\ lists' \in ListRow /\ lists'.of = lists.of /\ lists'.rows = lists.rows
        /\ lists'.loading = lists.loading /\ lists'.error = lists.error
        /\ lists'.operations = lists.operations /\ lists'.astray = lists.astray
        /\ lists'.open /\ lists'.impact = None
    BY <2>1, <2>2, PreviewIs
  <2>4. /\ wire' \subseteq ListCall
        /\ \A c \in wire' : c.current => \/ c \in wire /\ c.kind # "preview"
                                         \/ c.kind = "preview" /\ c.of = lists.of
    BY <1>0, <2>1, <2>3, PreviewSentIs
  <2>5. RowsAgree(lists', wire')
    BY <2>3, <2>4, RestingAgrees DEF ListInv, ReadKinds
  <2>6. ScreensApart(screen, lists', wire') /\ ImpactAgrees(screen, lists', wire')
    BY <1>0, <1>1, <2>3, <2>4 DEF ScreensApart, ImpactAgrees
  <2> QED
    BY <2>3, <2>4, <2>5, <2>6 DEF ListInv
<1>4. CASE GenerateCloses
  <2>1. lists' = [lists EXCEPT !.open = FALSE] /\ wire' = wire
    BY <1>4 DEF GenerateCloses
  <2>2. /\ lists' \in ListRow /\ lists'.of = lists.of /\ lists'.rows = lists.rows
        /\ lists'.loading = lists.loading /\ lists'.error = lists.error
        /\ lists'.operations = lists.operations /\ lists'.astray = lists.astray /\ ~ lists'.open
    BY <1>0, <2>1 DEF ListRow
  <2>3. RowsAgree(lists', wire')
    BY ZenonT(60), <2>1, <2>2, RestingAgrees DEF ListInv
  <2> QED
    BY <1>0, <1>1, <2>1, <2>2, <2>3 DEF ListInv, ScreensApart, ImpactAgrees
<1> QED
  BY <1>2, <1>3, <1>4

LEMMA PreviewedKeeps ==
  ASSUME ListInv(screen, lists, wire), NEW c \in wire, NEW works \in BOOLEAN, Previewed(c, works)
  PROVE  ListInv(screen, lists', wire')
<1>0. /\ lists \in ListRow /\ wire \subseteq ListCall /\ c.of \in Question /\ c.current \in BOOLEAN
      /\ screen = "visits" /\ c.kind = "preview" /\ wire' = wire \ {c}
  BY ListCallIs DEF ListInv, Previewed
<1>1. CASE ~ c.current
  BY <1>0, <1>1, ElsewhereOnThePage DEF Previewed
<1>2. CASE c.current
  <2> DEFINE i == IF works THEN c.of ELSE None
  <2>1. lists' = [lists EXCEPT !.previewing = FALSE, !.impact = i]
    BY <1>2 DEF Previewed
  <2>2. i \in Question \cup {None} /\ i \in {None, c.of}
    BY <1>0
  <2> HIDE DEF i
  <2>3. /\ lists' \in ListRow /\ lists'.of = lists.of /\ lists'.rows = lists.rows
        /\ lists'.loading = lists.loading /\ lists'.error = lists.error
        /\ lists'.operations = lists.operations /\ lists'.astray = lists.astray
        /\ lists'.open = lists.open /\ lists'.impact = i
    BY <1>0, <2>1, <2>2 DEF ListRow
  <2>4. RowsAgree(lists', wire')
    BY <1>0, <2>3, RestingAgrees DEF ListInv
  <2>5. ScreensApart(screen, lists', wire')
    BY <1>0, <2>3 DEF ListInv, ScreensApart
  <2>6. ImpactAgrees(screen, lists', wire')
    BY <1>0, <1>2, <2>2, <2>3 DEF ListInv, ImpactAgrees
  <2> QED
    BY <1>0, <2>3, <2>4, <2>5, <2>6 DEF ListInv
<1> QED
  BY <1>0, <1>1, <1>2

-----------------------------------------------------------------------------
(* The dispatch board *)

LEMMA CrewsGiveWay ==
  ASSUME NEW w \in SUBSET ListCall
  PROVE  LET u == {IF c.kind = "crews" THEN [c EXCEPT !.current = FALSE] ELSE c : c \in w}
         IN u \subseteq ListCall /\ \A c \in u : c.current => c \in w /\ c.kind # "crews"
BY ListCallIs

\* The board begins to read: the visits and the totals of one day, no crews.
LEMMA BoardReads ==
  ASSUME screen = "dispatch", ListInv(screen, lists, wire), NEW l \in ListRow, NEW q \in Question,
         l.loading, l.operations = None, l.astray \/ q = l.of, NEW w \in SUBSET Asked({"rows", "operations"}, q)
  PROVE  ListInv(screen, l, {IF c.kind = "crews" THEN [c EXCEPT !.current = FALSE] ELSE c : c \in w})
<1> DEFINE u == {IF c.kind = "crews" THEN [c EXCEPT !.current = FALSE] ELSE c : c \in w}
<1>1. /\ w \in SUBSET ListCall
      /\ \A c \in w : c.current => \/ c \in wire /\ c.kind \notin {"rows", "operations"}
                                   \/ c.kind \in {"rows", "operations"} /\ c.of = q
  BY AskedIs DEF ListInv, ReadKinds
<1>2. u \subseteq ListCall /\ \A c \in u : c.current => c \in w /\ c.kind # "crews"
  BY <1>1, CrewsGiveWay
<1> HIDE DEF u
<1>3. RowsAgree(l, u)
  BY <1>1, <1>2, ReadingAgrees DEF ReadKinds
<1>4. ListInv(screen, l, u)
  BY <1>2, <1>3 DEF ListInv, ScreensApart, ImpactAgrees
<1> QED
  BY <1>4 DEF u

LEMMA BoardAsks ==
  ASSUME ListInv(screen, lists, wire),
         (\E q \in Question : DispatchAsk(q)) \/ (\E c \in wire : DispatchChanged(c))
  PROVE  ListInv(screen, lists', wire')
<1>0. lists \in ListRow /\ wire \subseteq ListCall /\ lists.of \in Question
  BY DEF ListInv, ListRow
<1>1. ASSUME NEW q \in Question, DispatchAsk(q) PROVE ListInv(screen, lists', wire')
  <2>1. /\ screen = "dispatch" /\ lists' = [Loading(lists, q) EXCEPT !.operations = None]
        /\ wire' = {IF c.kind = "crews" THEN [c EXCEPT !.current = FALSE] ELSE c :
                      c \in Asked({"rows", "operations"}, q)}
    BY <1>1 DEF DispatchAsk
  <2>2. lists' = [lists EXCEPT !.of = q, !.loading = TRUE, !.error = FALSE, !.operations = None]
    BY <1>0, <2>1 DEF Loading, ListRow
  <2>3. lists' \in ListRow /\ lists'.of = q /\ lists'.loading /\ lists'.operations = None
    BY <1>0, <2>2 DEF ListRow
  <2> QED
    BY <2>1, <2>3, BoardReads
<1>2. ASSUME NEW c \in wire, DispatchChanged(c) PROVE ListInv(screen, lists', wire')
  <2>0. c.of \in Question
    BY <1>0, ListCallIs
  <2> DEFINE stray == lists.astray \/ c.of # lists.of
  <2>1. /\ screen = "dispatch"
        /\ lists' = [Loading(lists, lists.of) EXCEPT !.busy = FALSE, !.operations = None, !.astray = stray]
        /\ wire' = {IF d.kind = "crews" THEN [d EXCEPT !.current = FALSE] ELSE d :
                      d \in Asked({"rows", "operations"}, c.of) \ {c}}
    BY <1>0, <1>2 DEF DispatchChanged, Loading, ListRow
  <2>2. lists' = [lists EXCEPT !.of = lists.of, !.loading = TRUE, !.error = FALSE, !.busy = FALSE,
                               !.operations = None, !.astray = stray]
    BY <1>0, <2>1 DEF Loading, ListRow
  <2>3. stray \in BOOLEAN /\ (stray \/ c.of = lists.of)
    OBVIOUS
  <2> HIDE DEF stray
  <2>4. lists' \in ListRow
    <3>1. ASSUME NEW a \in BOOLEAN
          PROVE  [lists EXCEPT !.of = lists.of, !.loading = TRUE, !.error = FALSE, !.busy = FALSE,
                               !.operations = None, !.astray = a] \in ListRow
      BY <1>0 DEF ListRow
    <3>2. [lists EXCEPT !.of = lists.of, !.loading = TRUE, !.error = FALSE, !.busy = FALSE,
                        !.operations = None, !.astray = stray] \in ListRow
      BY <2>3, <3>1
    <3> QED
      BY <2>2, <3>2
  <2>5. lists'.of = lists.of /\ lists'.loading /\ lists'.operations = None /\ lists'.astray = stray
    BY <1>0, <2>2 DEF ListRow
  <2> QED
    BY <2>0, <2>1, <2>3, <2>4, <2>5, BoardReads
<1> QED
  BY <1>1, <1>2

LEMMA DispatchVisitsKeeps ==
  ASSUME ListInv(screen, lists, wire), NEW c \in wire, DispatchVisits(c)
  PROVE  ListInv(screen, lists', wire')
<1>0. /\ lists \in ListRow /\ wire \subseteq ListCall /\ c \in ListCall /\ c.of \in Question
      /\ c.current \in BOOLEAN /\ screen = "dispatch" /\ c.kind = "rows"
  BY ListCallIs DEF ListInv, DispatchVisits
<1>1. CASE ~ c.current
  <2>1. lists' = lists /\ wire' = wire \ {c}
    BY <1>1 DEF DispatchVisits
  <2> QED
    BY <1>0, <2>1, ElsewhereOnThePage
<1>2. CASE c.current
  <2> DEFINE r == [c EXCEPT !.kind = "crews"]
  <2>1. lists' = [lists EXCEPT !.rows = c.of] /\ wire' = (wire \ {c}) \cup {r}
    BY <1>2 DEF DispatchVisits
  <2>2. r \in ListCall /\ r.kind = "crews" /\ r.of = c.of
    BY <1>0 DEF ListCall, ReadKinds
  <2>3. /\ lists' \in ListRow /\ lists'.of = lists.of /\ lists'.rows = c.of /\ lists'.astray = lists.astray
        /\ lists'.operations = lists.operations
    BY <1>0, <2>1 DEF ListRow
  <2> HIDE DEF r
  <2>4. PICK x \in Question : /\ \A d \in wire : d.kind \in ReadKinds /\ d.current => d.of = x
                              /\ ~ lists.astray => x = lists.of
                              /\ lists.operations \in {None, x}
    BY DEF ListInv, RowsAgree
  <2>5. c.of = x
    BY <1>0, <1>2, <2>4 DEF ReadKinds
  <2>6. \A d \in wire' : d.kind \in ReadKinds /\ d.current => d.of = x
    BY <2>1, <2>2, <2>4, <2>5
  <2>7. RowsAgree(lists', wire')
    BY <2>3, <2>4, <2>5, <2>6 DEF RowsAgree, ReadKinds
  <2> QED
    BY <1>0, <2>1, <2>2, <2>3, <2>7 DEF ListInv, ScreensApart, ImpactAgrees
<1> QED
  BY <1>0, <1>1, <1>2

LEMMA DispatchCrewsKeeps ==
  ASSUME ListInv(screen, lists, wire), NEW c \in wire, DispatchCrews(c)
  PROVE  ListInv(screen, lists', wire')
<1>0. /\ lists \in ListRow /\ wire \subseteq ListCall /\ c.of \in Question /\ c.current \in BOOLEAN
      /\ screen = "dispatch" /\ c.kind = "crews" /\ wire' = wire \ {c}
  BY ListCallIs DEF ListInv, DispatchCrews
<1>1. CASE ~ c.current
  BY <1>0, <1>1, ElsewhereOnThePage DEF DispatchCrews
<1>2. CASE c.current
  <2> DEFINE stray == lists.astray /\ lists.rows # lists.of
  <2>1. lists' = [lists EXCEPT !.rows = lists.rows, !.loading = FALSE, !.astray = stray, !.crews = c.of]
    BY <1>0, <1>2 DEF DispatchCrews, Shown, ListRow
  <2>2. stray \in BOOLEAN /\ (stray <=> lists.astray /\ lists.rows # lists.of)
    OBVIOUS
  <2> HIDE DEF stray
  <2>3. lists' \in ListRow
    <3>1. ASSUME NEW a \in BOOLEAN
          PROVE  [lists EXCEPT !.rows = lists.rows, !.loading = FALSE, !.astray = a, !.crews = c.of] \in ListRow
      BY <1>0 DEF ListRow
    <3>2. [lists EXCEPT !.rows = lists.rows, !.loading = FALSE, !.astray = stray, !.crews = c.of] \in ListRow
      BY <2>2, <3>1
    <3> QED
      BY <2>1, <3>2
  <2>4. /\ lists'.of = lists.of /\ lists'.rows = lists.rows /\ lists'.astray = stray
        /\ lists'.operations = lists.operations
    BY <1>0, <2>1 DEF ListRow
  <2>5. PICK x \in Question : /\ \A d \in wire : d.kind \in ReadKinds /\ d.current => d.of = x
                              /\ ~ lists.astray => x = lists.of
                              /\ lists.operations \in {None, x}
    BY DEF ListInv, RowsAgree
  <2>6. c.of = x /\ lists.rows = x
    BY <1>0, <1>2, <2>5 DEF ReadKinds, ListInv, RowsAgree
  <2>7. RowsAgree(lists', wire')
    BY <1>0, <2>2, <2>4, <2>5, <2>6 DEF ListInv, RowsAgree
  <2> QED
    BY <1>0, <2>3, <2>7 DEF ListInv, ScreensApart, ImpactAgrees
<1> QED
  BY <1>0, <1>1, <1>2

LEMMA DispatchOperationsKeeps ==
  ASSUME ListInv(screen, lists, wire), NEW c \in wire, NEW works \in BOOLEAN, DispatchOperations(c, works)
  PROVE  ListInv(screen, lists', wire')
<1>0. /\ lists \in ListRow /\ wire \subseteq ListCall /\ c.of \in Question /\ c.current \in BOOLEAN
      /\ screen = "dispatch" /\ c.kind = "operations" /\ wire' = wire \ {c}
  BY ListCallIs DEF ListInv, DispatchOperations
<1>1. CASE ~ c.current
  BY <1>0, <1>1, ElsewhereOnThePage DEF DispatchOperations
<1>2. CASE c.current
  <2> DEFINE i == IF works THEN c.of ELSE None
  <2>1. lists' = [lists EXCEPT !.operations = i]
    BY <1>2 DEF DispatchOperations
  <2>2. i \in Question \cup {None} /\ i \in {None, c.of}
    BY <1>0
  <2> HIDE DEF i
  <2>3. /\ lists' \in ListRow /\ lists'.of = lists.of /\ lists'.rows = lists.rows
        /\ lists'.loading = lists.loading /\ lists'.error = lists.error
        /\ lists'.operations = i /\ lists'.astray = lists.astray
    BY <1>0, <2>1, <2>2 DEF ListRow
  <2>4. PICK x \in Question : /\ \A d \in wire : d.kind \in ReadKinds /\ d.current => d.of = x
                              /\ ~ lists.astray => x = lists.of
    BY DEF ListInv, RowsAgree
  <2>5. c.of = x
    BY <1>0, <1>2, <2>4 DEF ReadKinds
  <2>6. RowsAgree(lists', wire')
    BY <1>0, <2>2, <2>3, <2>4, <2>5 DEF ListInv, RowsAgree
  <2> QED
    BY <1>0, <2>3, <2>6 DEF ListInv, ScreensApart, ImpactAgrees
<1> QED
  BY <1>0, <1>1, <1>2

LEMMA ListStepKeeps ==
  ASSUME screen \in ListPages, ListInv(screen, lists, wire), ListsNext \/ ListsAnswered
  PROVE  ListInv(screen, lists', wire')
<1>0. screen # "walk"
  BY DEF ListPages
<1>1. CASE ListsNext
  <2>1. CASE \E q \in Question : AgreementsFilter(q) \/ CustomersAsk(q) \/ CalendarMoves(q)
    BY <2>1, PageAsks DEF AgreementsFilter, CustomersAsk, CalendarMoves
  <2>2. CASE \E q \in Question : VisitsMove(q)
    BY <2>2, DrawerKeeps
  <2>3. CASE \E q \in Question : DispatchAsk(q)
    BY <2>3, BoardAsks
  <2>4. CASE GenerateOpens \/ GenerateCloses
    BY <2>4, DrawerKeeps
  <2>5. CASE AgreementsChange \/ CustomersSubmit \/ VisitsConfirmMove \/ DispatchChange \/ GenerateConfirms
    BY <2>5, SendsKeeps
  <2>6. CASE \E x \in Customer : CustomerAdded(x) \/ CustomerLeaves(x)
    BY <1>0, <2>6 DEF CustomerAdded, CustomerLeaves
  <2> QED
    BY <1>1, <2>1, <2>2, <2>3, <2>4, <2>5, <2>6 DEF ListsNext
<1>2. CASE ListsAnswered
  <2>0. ~ WalkPage
    BY <1>0 DEF WalkPage
  <2>1. PICK c \in wire :
          \/ AgreementsLoaded(c) \/ AgreementsChanged(c) \/ CalendarLoaded(c) \/ VisitsLoaded(c)
          \/ VisitsAdjusted(c) \/ GenerateApplied(c) \/ DispatchVisits(c) \/ DispatchCrews(c)
          \/ DispatchChanged(c) \/ CustomersCreated(c) \/ CustomersRefused(c)
          \/ ListFails(c) \/ ChangeRefused(c)
          \/ \E b \in BOOLEAN : CustomersLoaded(c, b) \/ Previewed(c, b) \/ DispatchOperations(c, b)
    BY <1>2, <2>0 DEF ListsAnswered
  <2>2. CASE AgreementsLoaded(c) \/ CalendarLoaded(c) \/ VisitsLoaded(c)
    BY <2>2, PageLoaded DEF AgreementsLoaded, CalendarLoaded, VisitsLoaded, ListPages
  <2>3. CASE AgreementsChanged(c) \/ CustomersCreated(c) \/ VisitsAdjusted(c) \/ GenerateApplied(c)
    BY <2>3, HandlersKeep
  <2>4. CASE DispatchVisits(c) \/ DispatchCrews(c) \/ DispatchChanged(c)
    BY <2>4, DispatchVisitsKeeps, DispatchCrewsKeeps, BoardAsks
  <2>5. CASE CustomersRefused(c) \/ ListFails(c) \/ ChangeRefused(c)
    BY <2>5, ListRefusedKeeps
  <2>6. CASE \E b \in BOOLEAN : CustomersLoaded(c, b) \/ Previewed(c, b) \/ DispatchOperations(c, b)
    BY <2>6, CustomersLoadedKeeps, PreviewedKeeps, DispatchOperationsKeeps
  <2> QED
    BY <2>1, <2>2, <2>3, <2>4, <2>5, <2>6
<1> QED
  BY <1>1, <1>2

-----------------------------------------------------------------------------
(* The walk over every customer *)

\* What is held is in the book while nobody has left it; complete, it is the book.
WalkInv(l, s) ==
  /\ l \in [page : Nat, got : SUBSET Customer, done : {"no", "all", "failed"}, gone : SUBSET Customer]
  /\ s \in SUBSET Customer
  /\ l.gone = {} => l.got \subseteq s
  /\ l.gone = {} /\ l.done = "all" => l.got = s

LEMMA WalkPageKeeps ==
  ASSUME WalkInv(lists, server), WalkPage
  PROVE  WalkInv(lists', server')
<1> DEFINE items == PageOf(server, lists.page)
           got == lists.got \cup items
           done == IF ~ Owed(got, Cardinality(server)) THEN "all"
                   ELSE IF items \subseteq lists.got THEN "failed" ELSE "no"
<1>1. items \subseteq server
  BY DEF PageOf
<1>2. lists' = [lists EXCEPT !.got = got, !.page = @ + 1, !.done = done] /\ server' = server
  BY DEF WalkPage, others
<1>3. done \in {"no", "all", "failed"} /\ (done = "all" => ~ (Cardinality(got) < Cardinality(server)))
  BY DEF Owed
<1> HIDE DEF items
<1>4. got \in SUBSET Customer /\ (lists.gone = {} => got \subseteq server) /\ server \in SUBSET Customer
  BY <1>1 DEF WalkInv
<1> HIDE DEF got, done
<1>5. /\ lists' \in [page : Nat, got : SUBSET Customer, done : {"no", "all", "failed"}, gone : SUBSET Customer]
      /\ lists'.got = got /\ lists'.gone = lists.gone /\ lists'.done = done
  <2> DEFINE T == [page : Nat, got : SUBSET Customer, done : {"no", "all", "failed"}, gone : SUBSET Customer]
  <2>1. lists \in T
    BY DEF WalkInv
  <2>2. lists.page + 1 \in Nat
    BY <2>1
  <2>3. PICK g : g = got
    OBVIOUS
  <2>4. PICK d : d = done
    OBVIOUS
  <2>5. lists' = [lists EXCEPT !.got = g, !.page = lists.page + 1, !.done = d]
    BY <1>2, <2>3, <2>4
  <2>6. g \in SUBSET Customer /\ d \in {"no", "all", "failed"}
    BY <1>3, <1>4, <2>3, <2>4
  <2>7. lists' \in T /\ lists'.got = g /\ lists'.gone = lists.gone /\ lists'.done = d
    BY <2>1, <2>2, <2>5, <2>6
  <2> HIDE DEF T
  <2> QED
    BY <2>3, <2>4, <2>7 DEF T
<1>6. ASSUME lists.gone = {}, done = "all" PROVE got = server
  <2>1. IsFiniteSet(server) /\ Cardinality(server) \in Nat
    BY <1>4, ListsAssumption, FS_Subset, FS_CardinalityType
  <2>2. IsFiniteSet(got) /\ Cardinality(got) \in Nat
    BY <1>4, ListsAssumption, FS_Subset, FS_CardinalityType
  <2>3. got \in SUBSET server
    BY <1>4, <1>6
  <2>4. Cardinality(got) <= Cardinality(server) /\ (Cardinality(server) = Cardinality(got) => server = got)
    BY <2>1, <2>3, FS_Subset
  <2>5. ~ (Cardinality(got) < Cardinality(server))
    BY <1>3, <1>6
  <2> QED
    BY <2>1, <2>2, <2>4, <2>5
<1> QED
  BY <1>2, <1>4, <1>5, <1>6 DEF WalkInv

LEMMA WalkStepKeeps ==
  ASSUME screen = "walk", WalkInv(lists, server), wire = {}, ListsNext \/ ListsAnswered
  PROVE  WalkInv(lists', server') /\ wire' = {}
<1>1. \/ \E x \in Customer : CustomerAdded(x) \/ CustomerLeaves(x)
      \/ WalkPage
  BY DEF ListsNext, ListsAnswered, AgreementsFilter, CustomersAsk, CalendarMoves, VisitsMove, DispatchAsk,
         AgreementsChange, CustomersSubmit, VisitsConfirmMove, GenerateOpens, GenerateCloses, GenerateConfirms,
         DispatchChange
<1>2. CASE WalkPage
  BY <1>2, WalkPageKeeps DEF WalkPage
<1>3. ASSUME NEW x \in Customer, CustomerAdded(x) PROVE WalkInv(lists', server') /\ wire' = {}
  BY <1>3 DEF CustomerAdded, WalkInv
<1>4. ASSUME NEW x \in Customer, CustomerLeaves(x) PROVE WalkInv(lists', server') /\ wire' = {}
  <2>1. lists' = [lists EXCEPT !.gone = @ \cup {x}] /\ server' = server \ {x} /\ wire' = wire
    BY <1>4 DEF CustomerLeaves
  <2>2. /\ lists' \in [page : Nat, got : SUBSET Customer, done : {"no", "all", "failed"}, gone : SUBSET Customer]
        /\ lists'.gone # {} /\ server' \in SUBSET Customer
    BY <2>1 DEF WalkInv
  <2> QED
    BY <2>1, <2>2 DEF WalkInv
<1> QED
  BY <1>1, <1>2, <1>3, <1>4

-----------------------------------------------------------------------------
(* The queue of visits without a crew *)

Seen == [visit : Visit, isLocked : BOOLEAN]
QueueRow ==
  [focus : Visit \cup {None}, of : Question, rows : SUBSET Visit, answers : Visit \cup Question \cup {None},
   loading : BOOLEAN, error : {"no", "VALIDATION_FAILED", "other"}, busy : BOOLEAN, astray : BOOLEAN,
   open : Visit \cup {None}, shown : Seen \cup {None}, reading : BOOLEAN, unread : BOOLEAN, late : BOOLEAN,
   saving : BOOLEAN]
QueueCall ==
  [kind : {"queue"}, of : Visit \cup Question, current : BOOLEAN, seen : {None}]
    \cup [kind : {"visit"}, of : Visit, current : BOOLEAN, seen : Seen \cup {None}]
    \cup [kind : {"change"}, of : Visit \cup Question, current : BOOLEAN]
    \cup [kind : {"lock"}, of : Visit \cup Question, visit : Visit, opened : Visit, to : BOOLEAN, done : BOOLEAN]

\* The newest request for the queue is for the question the page asks, or the page
\* is astray; a page at rest shows the answer to it.
AnswersAgree(l, w) ==
  /\ \E x \in Visit \cup Question :
       /\ \A c \in w : c.kind = "queue" /\ c.current => c.of = x
       /\ ~ l.astray => x = Query(l)
  /\ ~ l.loading /\ l.error = "no" /\ ~ l.astray => l.answers = Query(l)

\* One lock is on its way at a time, and the button is held down for it.
LocksAgree(l, w) ==
  /\ \A c, d \in w : c.kind = "lock" /\ d.kind = "lock" => c = d
  /\ \A c \in w : c.kind = "lock" => l.saving

\* What is shown of the visit that is open, or was read of it, is so; unless it was
\* overtaken, or a lock that is done has not been answered yet.
Relocked(w) == \E c \in w : c.kind = "lock" /\ c.done
DetailAgrees(l, w, s) ==
  ~ l.late =>
    /\ l.open # None /\ l.shown # None =>
         l.shown.visit = l.open /\ (l.shown.isLocked = (l.open \in s) \/ Relocked(w))
    /\ \A c \in w : c.kind = "visit" /\ c.current =>
         /\ l.open # None => c.of = l.open
         /\ c.seen # None => c.seen.visit = c.of /\ (c.seen.isLocked = (c.of \in s) \/ Relocked(w))

QueueInv(l, w, s) ==
  l \in QueueRow /\ w \subseteq QueueCall /\ AnswersAgree(l, w) /\ LocksAgree(l, w) /\ DetailAgrees(l, w, s)

LEMMA FetchesIs ==
  ASSUME NEW w \in SUBSET QueueCall, NEW kind \in {"queue", "visit"},
         NEW q \in Visit \cup Question, kind = "visit" => q \in Visit
  PROVE  /\ Fetches(w, kind, q) \subseteq QueueCall
         /\ \A c \in Fetches(w, kind, q) : c.kind \in {"queue", "visit"} /\ c.current =>
              \/ c \in w /\ c.kind # kind
              \/ c.kind = kind /\ c.of = q /\ c.seen = None
         /\ \A c \in Fetches(w, kind, q) : c.kind \in {"lock", "change"} => c \in w
         /\ \A c \in w : c.kind \in {"lock", "change"} => c \in Fetches(w, kind, q)
<1> DEFINE u == {IF c.kind = kind THEN [c EXCEPT !.current = FALSE] ELSE c : c \in w}
           r == [kind |-> kind, of |-> q, current |-> TRUE, seen |-> None]
<1>1. ASSUME NEW c \in QueueCall, c.kind = kind
      PROVE  /\ [c EXCEPT !.current = FALSE] \in QueueCall /\ [c EXCEPT !.current = FALSE].current = FALSE
             /\ [c EXCEPT !.current = FALSE].kind = kind
  BY <1>1 DEF QueueCall
<1>2. /\ u \subseteq QueueCall
      /\ \A c \in u : c.current /\ c.kind \in {"queue", "visit"} => c \in w /\ c.kind # kind
      /\ \A c \in u : c.kind \in {"lock", "change"} => c \in w
      /\ \A c \in w : c.kind # kind => c \in u
  BY <1>1
<1>3. r \in QueueCall /\ r.kind = kind /\ r.of = q /\ r.seen = None
  BY DEF QueueCall
<1>4. Fetches(w, kind, q) = u \cup {r}
  BY DEF Fetches
<1> HIDE DEF u, r
<1> QED
  BY <1>2, <1>3, <1>4

LEMMA QueryIs ==
  ASSUME NEW l \in QueueRow
  PROVE  Query(l) \in Visit \cup Question
BY DEF Query, QueueRow

\* A step that asks the queue nothing and is told nothing by it.
LEMMA QuietAnswers ==
  ASSUME NEW k, NEW w, AnswersAgree(k, w), NEW l, NEW u,
         l.focus = k.focus, l.of = k.of, l.answers = k.answers, l.loading = k.loading, l.error = k.error,
         l.astray = k.astray, \A c \in u : c.kind = "queue" /\ c.current => c \in w
  PROVE  AnswersAgree(l, u)
BY DEF AnswersAgree, Query

\* The page asks q.
LEMMA AskingAgrees ==
  ASSUME NEW l, NEW u, NEW q \in Visit \cup Question, l.loading, l.astray \/ q = Query(l),
         \A c \in u : c.kind = "queue" /\ c.current => c.of = q
  PROVE  AnswersAgree(l, u)
BY DEF AnswersAgree

\* A step the drawer has no part in.
LEMMA QuietDetail ==
  ASSUME NEW k, NEW w, NEW s, DetailAgrees(k, w, s), LocksAgree(k, w), NEW l, NEW u,
         l.open = k.open, l.shown = k.shown, l.late = k.late, l.saving = k.saving,
         \A c \in u : c.kind = "visit" /\ c.current => c \in w,
         \A c \in u : c.kind = "lock" => c \in w,
         \A c \in w : c.kind = "lock" => c \in u
  PROVE  DetailAgrees(l, u, s) /\ LocksAgree(l, u)
BY DEF DetailAgrees, LocksAgree, Relocked

LEMMA FetchingIs ==
  ASSUME NEW l \in QueueRow
  PROVE  /\ Fetching(l) \in QueueRow /\ Fetching(l).loading /\ Query(Fetching(l)) = Query(l)
         /\ Fetching(l).open = l.open /\ Fetching(l).shown = l.shown /\ Fetching(l).late = l.late
         /\ Fetching(l).saving = l.saving /\ Fetching(l).astray = l.astray
BY DEF Fetching, QueueRow, Query

LEMMA QueueAsksKeeps ==
  ASSUME QueueInv(lists, wire, server),
         (\E q \in Question : QueueAsk(q)) \/ (\E v \in Visit \cup {None} : QueueFollows(v))
  PROVE  QueueInv(lists', wire', server')
<1>0. lists \in QueueRow /\ wire \in SUBSET QueueCall
  BY DEF QueueInv
<1>1. \E l \in QueueRow : /\ l.open = lists.open /\ l.shown = lists.shown /\ l.late = lists.late
                          /\ l.saving = lists.saving /\ lists' = Fetching(l)
  <2>1. ASSUME NEW q \in Question, QueueAsk(q)
        PROVE  \E l \in QueueRow : /\ l.open = lists.open /\ l.shown = lists.shown /\ l.late = lists.late
                                   /\ l.saving = lists.saving /\ lists' = Fetching(l)
    <3> DEFINE l == [lists EXCEPT !.of = q]
    <3>1. /\ l \in QueueRow /\ l.open = lists.open /\ l.shown = lists.shown /\ l.late = lists.late
          /\ l.saving = lists.saving
      BY <1>0 DEF QueueRow
    <3>2. lists' = Fetching(l)
      BY <2>1 DEF QueueAsk
    <3> HIDE DEF l
    <3> QED
      BY <3>1, <3>2
  <2>2. ASSUME NEW v \in Visit \cup {None}, QueueFollows(v)
        PROVE  \E l \in QueueRow : /\ l.open = lists.open /\ l.shown = lists.shown /\ l.late = lists.late
                                   /\ l.saving = lists.saving /\ lists' = Fetching(l)
    <3> DEFINE l == [lists EXCEPT !.focus = v]
    <3>1. /\ l \in QueueRow /\ l.open = lists.open /\ l.shown = lists.shown /\ l.late = lists.late
          /\ l.saving = lists.saving
      BY <1>0 DEF QueueRow
    <3>2. lists' = Fetching(l)
      BY <2>2 DEF QueueFollows
    <3> HIDE DEF l
    <3> QED
      BY <3>1, <3>2
  <2> QED
    BY <2>1, <2>2
<1>2. PICK l \in QueueRow : /\ l.open = lists.open /\ l.shown = lists.shown /\ l.late = lists.late
                            /\ l.saving = lists.saving /\ lists' = Fetching(l)
  BY <1>1
<1>3. wire' = Fetches(wire, "queue", Query(lists')) /\ server' = server
  BY DEF QueueAsk, QueueFollows, others
<1>4. /\ lists' \in QueueRow /\ lists'.loading /\ lists'.open = lists.open /\ lists'.shown = lists.shown
      /\ lists'.late = lists.late /\ lists'.saving = lists.saving /\ Query(lists') \in Visit \cup Question
  BY <1>2, FetchingIs, QueryIs
<1>5. /\ wire' \subseteq QueueCall
      /\ \A c \in wire' : c.kind \in {"queue", "visit"} /\ c.current =>
           \/ c \in wire /\ c.kind # "queue"
           \/ c.kind = "queue" /\ c.of = Query(lists') /\ c.seen = None
      /\ \A c \in wire' : c.kind \in {"lock", "change"} => c \in wire
      /\ \A c \in wire : c.kind \in {"lock", "change"} => c \in wire'
  BY <1>0, <1>3, <1>4, FetchesIs
<1>6. AnswersAgree(lists', wire')
  BY <1>4, <1>5, AskingAgrees
<1>7. DetailAgrees(lists', wire', server') /\ LocksAgree(lists', wire')
  BY <1>3, <1>4, <1>5, QuietDetail DEF QueueInv
<1> QED
  BY <1>4, <1>5, <1>6, <1>7 DEF QueueInv

LEMMA QueueLoadedKeeps ==
  ASSUME QueueInv(lists, wire, server), NEW c \in wire, NEW found \in SUBSET Visit, QueueLoaded(c, found)
  PROVE  QueueInv(lists', wire', server')
<1>0. /\ lists \in QueueRow /\ wire \in SUBSET QueueCall /\ c.kind = "queue" /\ wire' = wire \ {c} /\ server' = server
      /\ c.current \in BOOLEAN /\ c.of \in Visit \cup Question
  BY DEF QueueInv, QueueLoaded, others, QueueCall
<1>1. PICK b \in BOOLEAN : b = (~ c.current \/ (lists.astray /\ c.of # Query(lists)))
  OBVIOUS
<1>2. lists' = [lists EXCEPT !.rows = found, !.answers = c.of, !.loading = FALSE, !.astray = b]
  BY <1>0, <1>1 DEF QueueLoaded, QueueRow
<1>3. /\ lists' \in QueueRow /\ Query(lists') = Query(lists) /\ lists'.answers = c.of /\ lists'.astray = b
      /\ lists'.open = lists.open /\ lists'.shown = lists.shown /\ lists'.late = lists.late
      /\ lists'.saving = lists.saving
  BY <1>0, <1>2 DEF QueueRow, Query
<1>4. AnswersAgree(lists', wire')
  <2>1. PICK x \in Visit \cup Question : /\ \A d \in wire : d.kind = "queue" /\ d.current => d.of = x
                                         /\ ~ lists.astray => x = Query(lists)
    BY DEF QueueInv, AnswersAgree
  <2>2. ~ b => c.of = x /\ x = Query(lists)
    BY <1>0, <1>1, <2>1
  <2> QED
    BY <1>0, <1>3, <2>1, <2>2 DEF AnswersAgree
<1>5. DetailAgrees(lists', wire', server') /\ LocksAgree(lists', wire')
  BY <1>0, <1>3, QuietDetail DEF QueueInv
<1> QED
  BY <1>0, <1>3, <1>4, <1>5 DEF QueueInv

LEMMA QueueFailsKeeps ==
  ASSUME QueueInv(lists, wire, server), NEW c \in wire, NEW why \in {"VALIDATION_FAILED", "other"}, QueueFails(c, why)
  PROVE  QueueInv(lists', wire', server')
<1>0. /\ lists \in QueueRow /\ wire \in SUBSET QueueCall /\ c.kind = "queue" /\ wire' = wire \ {c} /\ server' = server
      /\ c.current \in BOOLEAN /\ lists.astray \in BOOLEAN
  BY DEF QueueInv, QueueFails, others, QueueCall, QueueRow
<1>1. PICK b \in BOOLEAN : b = (lists.astray \/ ~ c.current)
  OBVIOUS
<1>2. lists' = [lists EXCEPT !.error = why, !.loading = FALSE, !.astray = b]
  BY <1>0, <1>1 DEF QueueFails, QueueRow
<1>3. /\ lists' \in QueueRow /\ Query(lists') = Query(lists) /\ lists'.error # "no" /\ lists'.astray = b
      /\ lists'.open = lists.open /\ lists'.shown = lists.shown /\ lists'.late = lists.late
      /\ lists'.saving = lists.saving
  BY <1>0, <1>2 DEF QueueRow, Query
<1>4. AnswersAgree(lists', wire')
  BY <1>0, <1>1, <1>3 DEF QueueInv, AnswersAgree
<1>5. DetailAgrees(lists', wire', server') /\ LocksAgree(lists', wire')
  BY <1>0, <1>3, QuietDetail DEF QueueInv
<1> QED
  BY <1>0, <1>3, <1>4, <1>5 DEF QueueInv

\* A crew is given to a visit of the queue, or that is refused.
LEMMA QueueAssignsKeeps ==
  ASSUME QueueInv(lists, wire, server),
         QueueAssigns \/ (\E c \in wire : ChangeRefused(c))
  PROVE  QueueInv(lists', wire', server')
<1>0. lists \in QueueRow /\ wire \in SUBSET QueueCall
  BY DEF QueueInv
<1>1. /\ server' = server
      /\ wire' \subseteq QueueCall
      /\ \A c \in wire' : c.kind # "change" => c \in wire
      /\ \A c \in wire : c.kind = "lock" => c \in wire'
  <2>1. CASE QueueAssigns
    <3> DEFINE r == [kind |-> "change", of |-> Query(lists), current |-> TRUE]
    <3>1. r \in QueueCall /\ r.kind = "change"
      BY <1>0, QueryIs DEF QueueCall
    <3>2. wire' = wire \cup {r} /\ server' = server
      BY <2>1 DEF QueueAssigns, others
    <3> HIDE DEF r
    <3> QED
      BY <1>0, <3>1, <3>2
  <2>2. ASSUME NEW c \in wire, ChangeRefused(c)
        PROVE  /\ server' = server
               /\ wire' \subseteq QueueCall
               /\ \A d \in wire' : d.kind # "change" => d \in wire
               /\ \A d \in wire : d.kind = "lock" => d \in wire'
    BY <1>0, <2>2 DEF ChangeRefused, others
  <2> QED
    BY <2>1, <2>2
<1>2. PICK b \in BOOLEAN : lists' = [lists EXCEPT !.busy = b]
  <2>1. CASE QueueAssigns
    BY <2>1 DEF QueueAssigns
  <2>2. ASSUME NEW c \in wire, ChangeRefused(c) PROVE \E b \in BOOLEAN : lists' = [lists EXCEPT !.busy = b]
    <3>1. PICK b \in BOOLEAN : b = (lists.busy /\ c.kind = "generate")
      OBVIOUS
    <3>2. lists' = [lists EXCEPT !.busy = b]
      BY <1>0, <2>2, <3>1 DEF ChangeRefused, QueueRow
    <3> QED
      BY <3>2
  <2> QED
    BY <2>1, <2>2
<1>3. /\ lists' \in QueueRow /\ lists'.focus = lists.focus /\ lists'.of = lists.of /\ lists'.answers = lists.answers
      /\ lists'.loading = lists.loading /\ lists'.error = lists.error /\ lists'.astray = lists.astray
      /\ lists'.open = lists.open /\ lists'.shown = lists.shown /\ lists'.late = lists.late
      /\ lists'.saving = lists.saving
  BY <1>0, <1>2 DEF QueueRow
<1>4. AnswersAgree(lists', wire')
  BY <1>1, <1>3, QuietAnswers DEF QueueInv
<1>5. DetailAgrees(lists', wire', server') /\ LocksAgree(lists', wire')
  BY <1>1, <1>3, QuietDetail DEF QueueInv
<1> QED
  BY <1>1, <1>3, <1>4, <1>5 DEF QueueInv

\* A handler reads the queue again, with the question it began with.
LEMMA ReadsQueueIs ==
  ASSUME NEW l \in QueueRow, NEW q
  PROVE  /\ ReadsQueue(l, q) \in QueueRow /\ ReadsQueue(l, q).loading
         /\ ReadsQueue(l, q).astray \/ q = Query(l)
         /\ ReadsQueue(l, q).focus = l.focus /\ ReadsQueue(l, q).of = l.of
         /\ ReadsQueue(l, q).open = l.open /\ ReadsQueue(l, q).shown = l.shown
         /\ ReadsQueue(l, q).late = l.late /\ ReadsQueue(l, q).saving = l.saving
<1>1. PICK b \in BOOLEAN : b = (l.astray \/ q # Query(l))
  BY DEF QueueRow
<1>2. PICK f : f = Fetching(l)
  OBVIOUS
<1>3. /\ f \in QueueRow /\ f.loading /\ f.astray = l.astray /\ f.focus = l.focus /\ f.of = l.of
      /\ f.open = l.open /\ f.shown = l.shown /\ f.late = l.late /\ f.saving = l.saving
  BY <1>2 DEF Fetching, QueueRow
<1>4. ReadsQueue(l, q) = [f EXCEPT !.astray = b]
  BY <1>1, <1>2, <1>3 DEF ReadsQueue, QueueRow
<1>5. /\ [f EXCEPT !.astray = b] \in QueueRow /\ [f EXCEPT !.astray = b].astray = b
      /\ [f EXCEPT !.astray = b].loading /\ [f EXCEPT !.astray = b].focus = f.focus
      /\ [f EXCEPT !.astray = b].of = f.of /\ [f EXCEPT !.astray = b].open = f.open
      /\ [f EXCEPT !.astray = b].shown = f.shown /\ [f EXCEPT !.astray = b].late = f.late
      /\ [f EXCEPT !.astray = b].saving = f.saving
  BY <1>3 DEF QueueRow
<1> QED
  BY <1>1, <1>3, <1>4, <1>5

LEMMA QueueAssignedKeeps ==
  ASSUME QueueInv(lists, wire, server), NEW c \in wire, QueueAssigned(c)
  PROVE  QueueInv(lists', wire', server')
<1>0. /\ lists \in QueueRow /\ wire \ {c} \in SUBSET QueueCall /\ c.kind = "change" /\ server' = server
      /\ c.of \in Visit \cup Question /\ wire' = Fetches(wire \ {c}, "queue", c.of)
  BY DEF QueueInv, QueueAssigned, others, QueueCall
<1>w. PICK w \in SUBSET QueueCall : w = wire \ {c}
  BY <1>0
<1>1. PICK f \in QueueRow : f = ReadsQueue(lists, c.of)
  BY <1>0, ReadsQueueIs
<1>2. /\ f.loading /\ (f.astray \/ c.of = Query(lists))
      /\ f.focus = lists.focus /\ f.of = lists.of /\ f.open = lists.open /\ f.shown = lists.shown
      /\ f.late = lists.late /\ f.saving = lists.saving
  BY <1>0, <1>1, ReadsQueueIs
<1>3. lists' = [f EXCEPT !.busy = FALSE]
  BY <1>1 DEF QueueAssigned
<1>4. /\ lists' \in QueueRow /\ lists'.loading /\ (lists'.astray \/ c.of = Query(lists'))
      /\ lists'.open = lists.open /\ lists'.shown = lists.shown
      /\ lists'.late = lists.late /\ lists'.saving = lists.saving
  BY <1>2, <1>3 DEF QueueRow, Query
<1>q. PICK q \in Visit \cup Question : q = c.of
  BY <1>0
<1>5. /\ wire' \subseteq QueueCall
      /\ \A d \in wire' : d.kind \in {"queue", "visit"} /\ d.current =>
           \/ d \in w /\ d.kind # "queue"
           \/ d.kind = "queue" /\ d.of = q /\ d.seen = None
      /\ \A d \in wire' : d.kind \in {"lock", "change"} => d \in w
      /\ \A d \in w : d.kind \in {"lock", "change"} => d \in wire'
  <2>1. wire' = Fetches(w, "queue", q)
    BY <1>0, <1>w, <1>q
  <2> QED
    BY <2>1, FetchesIs
<1>6. AnswersAgree(lists', wire')
  BY <1>q, <1>4, <1>5, AskingAgrees
<1>7. DetailAgrees(lists', wire', server') /\ LocksAgree(lists', wire')
  BY <1>0, <1>w, <1>4, <1>5, QuietDetail DEF QueueInv
<1> QED
  BY <1>4, <1>5, <1>6, <1>7 DEF QueueInv

\* The drawer opens on a visit: what it was shown, and what it read of others, is behind.
LEMMA ReadsIs ==
  ASSUME NEW l \in QueueRow
  PROVE  /\ Reads(l) \in QueueRow /\ Reads(l).shown = None /\ Reads(l).focus = l.focus /\ Reads(l).of = l.of
         /\ Reads(l).answers = l.answers /\ Reads(l).loading = l.loading /\ Reads(l).error = l.error
         /\ Reads(l).astray = l.astray /\ Reads(l).saving = l.saving /\ Reads(l).late = l.late
         /\ Reads(l).open = l.open
BY DEF Reads, QueueRow

LEMMA OpenDetailKeeps ==
  ASSUME QueueInv(lists, wire, server), NEW v \in Visit, OpenDetail(v)
  PROVE  QueueInv(lists', wire', server')
<1>0. /\ lists \in QueueRow /\ wire \in SUBSET QueueCall /\ server' = server
      /\ wire' = Fetches(wire, "visit", v)
  BY DEF QueueInv, OpenDetail, others
<1>1. PICK f \in QueueRow : f = Reads(lists)
  BY <1>0, ReadsIs
<1>2. /\ f.shown = None /\ f.focus = lists.focus /\ f.of = lists.of
      /\ f.answers = lists.answers /\ f.loading = lists.loading /\ f.error = lists.error
      /\ f.astray = lists.astray /\ f.saving = lists.saving
  BY <1>0, <1>1, ReadsIs
<1>3. lists' = [f EXCEPT !.open = v, !.late = FALSE]
  BY <1>1 DEF OpenDetail
<1>4. /\ lists' \in QueueRow /\ lists'.shown = None /\ lists'.open = v /\ lists'.focus = lists.focus
      /\ lists'.of = lists.of /\ lists'.answers = lists.answers /\ lists'.loading = lists.loading
      /\ lists'.error = lists.error /\ lists'.astray = lists.astray /\ lists'.saving = lists.saving
  BY <1>2, <1>3 DEF QueueRow
<1>5. /\ wire' \subseteq QueueCall
      /\ \A d \in wire' : d.kind \in {"queue", "visit"} /\ d.current =>
           \/ d \in wire /\ d.kind # "visit"
           \/ d.kind = "visit" /\ d.of = v /\ d.seen = None
      /\ \A d \in wire' : d.kind \in {"lock", "change"} => d \in wire
  BY <1>0, FetchesIs
<1>6. AnswersAgree(lists', wire')
  BY <1>4, <1>5, QuietAnswers DEF QueueInv
<1>7. LocksAgree(lists', wire')
  BY <1>4, <1>5 DEF QueueInv, LocksAgree
<1>8. DetailAgrees(lists', wire', server')
  BY <1>4, <1>5 DEF DetailAgrees
<1> QED
  BY <1>4, <1>5, <1>6, <1>7, <1>8 DEF QueueInv

LEMMA CloseDetailKeeps ==
  ASSUME QueueInv(lists, wire, server), CloseDetail
  PROVE  QueueInv(lists', wire', server')
<1>0. /\ lists \in QueueRow /\ wire \in SUBSET QueueCall /\ server' = server /\ wire' = wire
      /\ lists' = [lists EXCEPT !.open = None]
  BY DEF QueueInv, CloseDetail, others
<1>1. /\ lists' \in QueueRow /\ lists'.open = None /\ lists'.focus = lists.focus
      /\ lists'.of = lists.of /\ lists'.answers = lists.answers /\ lists'.loading = lists.loading
      /\ lists'.error = lists.error /\ lists'.astray = lists.astray /\ lists'.saving = lists.saving
      /\ lists'.late = lists.late
  BY <1>0 DEF QueueRow
<1>2. AnswersAgree(lists', wire')
  BY <1>0, <1>1, QuietAnswers DEF QueueInv
<1>3. LocksAgree(lists', wire') /\ DetailAgrees(lists', wire', server')
  BY <1>0, <1>1 DEF QueueInv, LocksAgree, DetailAgrees
<1> QED
  BY <1>0, <1>1, <1>2, <1>3 DEF QueueInv

\* The API reads the visit.
LEMMA DetailServedKeeps ==
  ASSUME QueueInv(lists, wire, server), NEW c \in wire, DetailServed(c)
  PROVE  QueueInv(lists', wire', server')
<1>0. /\ lists \in QueueRow /\ wire \in SUBSET QueueCall /\ lists' = lists /\ server' = server
      /\ c \in QueueCall /\ c.kind = "visit"
  BY DEF QueueInv, DetailServed, others
<1> DEFINE seen == [visit |-> c.of, isLocked |-> c.of \in server]
           r == [c EXCEPT !.seen = seen]
<1>1. c.of \in Visit /\ c.current \in BOOLEAN
  BY <1>0 DEF QueueCall
<1>2. seen \in Seen /\ seen.visit = c.of /\ seen.isLocked = (c.of \in server)
  BY <1>1 DEF Seen
<1>w. wire' = (wire \ {c}) \cup {r}
  BY DEF DetailServed
<1> HIDE DEF seen
<1>3. r \in QueueCall /\ r.kind = "visit" /\ r.seen = seen /\ r.of = c.of /\ r.current = c.current
  BY <1>0, <1>2 DEF QueueCall
<1> HIDE DEF r
<1>4. AnswersAgree(lists', wire')
  BY <1>0, <1>w, <1>3, QuietAnswers DEF QueueInv
<1>5. LocksAgree(lists', wire')
  BY <1>0, <1>w, <1>3 DEF QueueInv, LocksAgree
<1>6. Relocked(wire) => Relocked(wire')
  BY <1>0, <1>w DEF Relocked
<1>7. DetailAgrees(lists', wire', server')
  BY <1>0, <1>w, <1>2, <1>3, <1>6 DEF QueueInv, DetailAgrees
<1> QED
  BY <1>0, <1>w, <1>3, <1>4, <1>5, <1>7 DEF QueueInv

LEMMA DetailArrivesKeeps ==
  ASSUME QueueInv(lists, wire, server), NEW c \in wire, DetailArrives(c)
  PROVE  QueueInv(lists', wire', server')
<1>0. /\ lists \in QueueRow /\ wire \in SUBSET QueueCall /\ server' = server /\ wire' = wire \ {c}
      /\ c.kind = "visit" /\ c.seen # None /\ c.current \in BOOLEAN /\ c.seen \in Seen \cup {None}
  BY DEF QueueInv, DetailArrives, others, QueueCall
<1>1. PICK b \in BOOLEAN : b = (lists.late \/ ~ c.current)
  BY <1>0 DEF QueueRow
<1>2. lists' = [lists EXCEPT !.shown = c.seen, !.reading = FALSE, !.late = b]
  BY <1>0, <1>1 DEF DetailArrives, QueueRow
<1>3. /\ lists' \in QueueRow /\ lists'.open = lists.open /\ lists'.focus = lists.focus
      /\ lists'.of = lists.of /\ lists'.answers = lists.answers /\ lists'.loading = lists.loading
      /\ lists'.error = lists.error /\ lists'.astray = lists.astray /\ lists'.saving = lists.saving
      /\ lists'.late = b /\ lists'.shown = c.seen
  BY <1>0, <1>2 DEF QueueRow
<1>4. AnswersAgree(lists', wire')
  BY <1>0, <1>3, QuietAnswers DEF QueueInv
<1>5. LocksAgree(lists', wire')
  BY <1>0, <1>3 DEF QueueInv, LocksAgree
<1>6. Relocked(wire) => Relocked(wire')
  BY <1>0 DEF Relocked
<1>7. DetailAgrees(lists', wire', server')
  BY <1>0, <1>1, <1>3, <1>6 DEF QueueInv, DetailAgrees
<1> QED
  BY <1>0, <1>3, <1>4, <1>5, <1>7 DEF QueueInv

LEMMA DetailFailsKeeps ==
  ASSUME QueueInv(lists, wire, server), NEW c \in wire, DetailFails(c)
  PROVE  QueueInv(lists', wire', server')
<1>0. /\ lists \in QueueRow /\ wire \in SUBSET QueueCall /\ server' = server /\ wire' = wire \ {c}
      /\ c.kind = "visit" /\ c.current \in BOOLEAN
  BY DEF QueueInv, DetailFails, others, QueueCall
<1>1. PICK b \in BOOLEAN : b = (lists.late \/ ~ c.current)
  BY <1>0 DEF QueueRow
<1>2. lists' = [lists EXCEPT !.unread = TRUE, !.reading = FALSE, !.late = b]
  BY <1>0, <1>1 DEF DetailFails, QueueRow
<1>3. /\ lists' \in QueueRow /\ lists'.open = lists.open /\ lists'.focus = lists.focus
      /\ lists'.of = lists.of /\ lists'.answers = lists.answers /\ lists'.loading = lists.loading
      /\ lists'.error = lists.error /\ lists'.astray = lists.astray /\ lists'.saving = lists.saving
      /\ lists'.late = b /\ lists'.shown = lists.shown
  BY <1>0, <1>2 DEF QueueRow
<1>4. AnswersAgree(lists', wire')
  BY <1>0, <1>3, QuietAnswers DEF QueueInv
<1>5. LocksAgree(lists', wire')
  BY <1>0, <1>3 DEF QueueInv, LocksAgree
<1>6. Relocked(wire) => Relocked(wire')
  BY <1>0 DEF Relocked
<1>7. DetailAgrees(lists', wire', server')
  BY <1>0, <1>1, <1>3, <1>6 DEF QueueInv, DetailAgrees
<1> QED
  BY <1>0, <1>3, <1>4, <1>5, <1>7 DEF QueueInv

LEMMA ToggleVisitLockKeeps ==
  ASSUME QueueInv(lists, wire, server), ToggleVisitLock
  PROVE  QueueInv(lists', wire', server')
<1>0. /\ lists \in QueueRow /\ wire \in SUBSET QueueCall /\ server' = server
      /\ lists.open \in Visit /\ lists.shown \in Seen /\ ~ lists.saving
      /\ lists' = [lists EXCEPT !.saving = TRUE]
  BY DEF QueueInv, ToggleVisitLock, others, QueueRow
<1> DEFINE r == [kind |-> "lock", of |-> Query(lists), visit |-> lists.shown.visit,
                 opened |-> lists.open, to |-> ~ lists.shown.isLocked, done |-> FALSE]
<1>1. /\ Query(lists) \in Visit \cup Question /\ lists.shown.visit \in Visit
      /\ (~ lists.shown.isLocked) \in BOOLEAN
  BY <1>0, QueryIs DEF Seen
<1>2. r \in QueueCall /\ r.kind = "lock"
  BY <1>0, <1>1 DEF QueueCall
<1>w. wire' = wire \cup {r}
  BY DEF ToggleVisitLock
<1> HIDE DEF r
<1>3. /\ lists' \in QueueRow /\ lists'.open = lists.open /\ lists'.focus = lists.focus
      /\ lists'.of = lists.of /\ lists'.answers = lists.answers /\ lists'.loading = lists.loading
      /\ lists'.error = lists.error /\ lists'.astray = lists.astray /\ lists'.saving
      /\ lists'.late = lists.late /\ lists'.shown = lists.shown
  BY <1>0 DEF QueueRow
<1>4. AnswersAgree(lists', wire')
  BY <1>w, <1>2, <1>3, QuietAnswers DEF QueueInv
<1>5. LocksAgree(lists', wire')
  BY <1>0, <1>w, <1>2, <1>3 DEF QueueInv, LocksAgree
<1>6. Relocked(wire) => Relocked(wire')
  BY <1>w DEF Relocked
<1>7. DetailAgrees(lists', wire', server')
  BY <1>0, <1>w, <1>2, <1>3, <1>6 DEF QueueInv, DetailAgrees
<1> QED
  BY <1>0, <1>w, <1>2, <1>3, <1>4, <1>5, <1>7 DEF QueueInv

\* The API locks or releases; until that is answered, what was read before may be old.
LEMMA LockServedKeeps ==
  ASSUME QueueInv(lists, wire, server), NEW c \in wire, LockServed(c)
  PROVE  QueueInv(lists', wire', server')
<1>0. /\ lists \in QueueRow /\ wire \in SUBSET QueueCall /\ lists' = lists
      /\ c \in QueueCall /\ c.kind = "lock"
  BY DEF QueueInv, LockServed
<1> DEFINE r == [c EXCEPT !.done = TRUE]
<1>2. r \in QueueCall /\ r.kind = "lock" /\ r.done
  BY <1>0 DEF QueueCall
<1>w. wire' = (wire \ {c}) \cup {r}
  BY DEF LockServed
<1> HIDE DEF r
<1>4. AnswersAgree(lists', wire')
  BY <1>0, <1>w, <1>2, QuietAnswers DEF QueueInv
<1>5. LocksAgree(lists', wire')
  BY <1>0, <1>w, <1>2 DEF QueueInv, LocksAgree
<1>6. Relocked(wire')
  BY <1>w, <1>2 DEF Relocked
<1>7. DetailAgrees(lists', wire', server')
  BY <1>0, <1>w, <1>2, <1>6 DEF QueueInv, DetailAgrees
<1> QED
  BY <1>0, <1>w, <1>2, <1>4, <1>5, <1>7 DEF QueueInv

LEMMA LockFailsKeeps ==
  ASSUME QueueInv(lists, wire, server), NEW c \in wire, LockFails(c)
  PROVE  QueueInv(lists', wire', server')
<1>0. /\ lists \in QueueRow /\ wire \in SUBSET QueueCall /\ server' = server /\ wire' = wire \ {c}
      /\ c.kind = "lock" /\ c.done \in BOOLEAN
  BY DEF QueueInv, LockFails, others, QueueCall
<1>1. PICK b \in BOOLEAN : b = (lists.late \/ c.done)
  BY <1>0 DEF QueueRow
<1>2. lists' = [lists EXCEPT !.saving = FALSE, !.late = b]
  BY <1>0, <1>1 DEF LockFails, QueueRow
<1>3. /\ lists' \in QueueRow /\ lists'.open = lists.open /\ lists'.focus = lists.focus
      /\ lists'.of = lists.of /\ lists'.answers = lists.answers /\ lists'.loading = lists.loading
      /\ lists'.error = lists.error /\ lists'.astray = lists.astray
      /\ lists'.late = b /\ lists'.shown = lists.shown
  BY <1>0, <1>2 DEF QueueRow
<1>4. AnswersAgree(lists', wire')
  BY <1>0, <1>3, QuietAnswers DEF QueueInv
<1>5. LocksAgree(lists', wire')
  BY <1>0 DEF QueueInv, LocksAgree
<1>6. ~ b /\ Relocked(wire) => Relocked(wire')
  BY <1>0, <1>1 DEF Relocked, QueueInv, LocksAgree
<1>7. DetailAgrees(lists', wire', server')
  BY <1>0, <1>1, <1>3, <1>6 DEF QueueInv, DetailAgrees
<1> QED
  BY <1>0, <1>3, <1>4, <1>5, <1>7 DEF QueueInv

\* The lock is answered: drawer and queue are read again, both as of the click.
LEMMA LockAnsweredKeeps ==
  ASSUME QueueInv(lists, wire, server), NEW c \in wire, LockAnswered(c)
  PROVE  QueueInv(lists', wire', server')
<1>0. /\ lists \in QueueRow /\ wire \in SUBSET QueueCall /\ server' = server
      /\ c.kind = "lock" /\ c.of \in Visit \cup Question /\ c.opened \in Visit
  BY DEF QueueInv, LockAnswered, others, QueueCall
<1>q. PICK q \in Visit \cup Question : q = c.of
  BY <1>0
<1>v. PICK v \in Visit : v = c.opened
  BY <1>0
<1>1. PICK f \in QueueRow : f = ReadsQueue(lists, q)
  BY <1>0, ReadsQueueIs
<1>2. /\ f.loading /\ (f.astray \/ q = Query(lists)) /\ f.focus = lists.focus /\ f.of = lists.of
      /\ f.open = lists.open /\ f.late = lists.late
  BY <1>0, <1>1, ReadsQueueIs
<1>3. PICK g \in QueueRow : g = Reads(f)
  BY ReadsIs
<1>4. /\ g.loading /\ (g.astray \/ q = Query(lists)) /\ g.focus = lists.focus /\ g.of = lists.of
      /\ g.open = lists.open /\ g.late = lists.late /\ g.shown = None
  BY <1>2, <1>3, ReadsIs
<1>5. PICK b \in BOOLEAN : b = (lists.late \/ v # lists.open)
  BY <1>0 DEF QueueRow
<1>6. lists' = [g EXCEPT !.saving = FALSE, !.late = b]
  <2>1. lists' = [Reads(ReadsQueue(lists, c.of)) EXCEPT !.saving = FALSE, !.late = @ \/ c.opened # lists.open]
    BY DEF LockAnswered
  <2>2. lists' = [g EXCEPT !.saving = FALSE, !.late = g.late \/ v # lists.open]
    BY <1>q, <1>v, <1>1, <1>3, <2>1 DEF QueueRow
  <2> QED
    BY <1>4, <1>5, <2>2
<1>7. /\ lists' \in QueueRow /\ lists'.loading /\ (lists'.astray \/ q = Query(lists'))
      /\ lists'.open = lists.open /\ lists'.late = b /\ lists'.shown = None
  BY ZenonT(60), <1>4, <1>6 DEF QueueRow, Query
<1>8. PICK w \in SUBSET QueueCall : w = wire \ {c}
  BY <1>0
<1>9. PICK u \in SUBSET QueueCall :
        /\ u = Fetches(w, "visit", v)
        /\ \A d \in u : d.kind \in {"queue", "visit"} /\ d.current =>
             \/ d \in w /\ d.kind # "visit"
             \/ d.kind = "visit" /\ d.of = v /\ d.seen = None
        /\ \A d \in u : d.kind \in {"lock", "change"} => d \in w
  BY FetchesIs
<1>10. wire' = Fetches(u, "queue", q)
  BY <1>q, <1>v, <1>8, <1>9 DEF LockAnswered
<1>11. /\ wire' \subseteq QueueCall
       /\ \A d \in wire' : d.kind \in {"queue", "visit"} /\ d.current =>
            \/ d \in u /\ d.kind # "queue"
            \/ d.kind = "queue" /\ d.of = q /\ d.seen = None
       /\ \A d \in wire' : d.kind \in {"lock", "change"} => d \in u
  BY <1>10, FetchesIs
<1>12. AnswersAgree(lists', wire')
  BY <1>7, <1>11, AskingAgrees
<1>13. \A d \in wire' : d.kind # "lock"
  BY <1>0, <1>8, <1>9, <1>11 DEF QueueInv, LocksAgree
<1>14. \A d \in wire' : d.kind = "visit" /\ d.current => d.of = v /\ d.seen = None
  BY <1>9, <1>11
<1>15. DetailAgrees(lists', wire', server')
  BY <1>5, <1>7, <1>14 DEF DetailAgrees
<1> QED
  BY <1>7, <1>11, <1>12, <1>13, <1>15 DEF QueueInv, LocksAgree

LEMMA QueueStepKeeps ==
  ASSUME QueueInv(lists, wire, server), QueueNext \/ QueueAnswered \/ \E c \in wire : ChangeRefused(c)
  PROVE  QueueInv(lists', wire', server')
<1>1. CASE QueueNext
  BY <1>1, QueueAsksKeeps, OpenDetailKeeps, QueueAssignsKeeps, CloseDetailKeeps, ToggleVisitLockKeeps DEF QueueNext
<1>2. CASE QueueAnswered
  <2>1. PICK c \in wire :
          \/ \E found \in SUBSET Visit : QueueLoaded(c, found)
          \/ \E why \in {"VALIDATION_FAILED", "other"} : QueueFails(c, why)
          \/ QueueAssigned(c) \/ DetailServed(c) \/ DetailArrives(c) \/ DetailFails(c)
          \/ LockServed(c) \/ LockAnswered(c) \/ LockFails(c)
    BY <1>2 DEF QueueAnswered
  <2> QED
    BY <2>1, QueueLoadedKeeps, QueueFailsKeeps, QueueAssignedKeeps, DetailServedKeeps, DetailArrivesKeeps,
       DetailFailsKeeps, LockServedKeeps, LockAnsweredKeeps, LockFailsKeeps
<1> QED
  BY <1>1, <1>2, QueueAssignsKeeps

\* What the queue's properties say follows.
LEMMA QueueShows ==
  ASSUME screen = "queue" => QueueInv(lists, wire, server)
  PROVE  QueueAnswersItsQuestion /\ DetailTellsTheLock
<1> SUFFICES ASSUME screen = "queue"
             PROVE  QueueAnswersItsQuestion /\ DetailTellsTheLock
  BY DEF QueueAnswersItsQuestion, DetailTellsTheLock
<1>0. lists \in QueueRow
  BY DEF QueueInv
<1>1. lists.focus # None => Displayed(lists) \subseteq {lists.focus}
  BY <1>0 DEF Displayed, FocusNotFound, QueueRow
<1>2. ~ lists.loading /\ lists.error = "no" /\ ~ lists.astray => lists.answers = Query(lists)
  BY DEF QueueInv, AnswersAgree
<1>3. SaysAllIsStaffed(lists) /\ ~ lists.astray => lists.focus = None /\ lists.answers = 1
  BY <1>0, <1>2 DEF SaysAllIsStaffed, FocusNotFound, Query, QueueRow
<1>4. QueueAnswersItsQuestion
  BY <1>1, <1>2, <1>3 DEF QueueAnswersItsQuestion, Query
<1>5. DetailTellsTheLock
  BY DEF DetailTellsTheLock, QueueInv, LocksAgree, DetailAgrees, Relocked
<1> QED
  BY <1>4, <1>5

-----------------------------------------------------------------------------
(* The run list and its polls *)

PagerRow ==
  [page : Page, rows : Page \cup {None}, loading : BOOLEAN, error : BOOLEAN, pending : BOOLEAN,
   active : BOOLEAN, panel : BOOLEAN, force : {"CHECKING", "READY", "ERROR"},
   busy : SUBSET {"start", "cancel", "publish"}, target : BOOLEAN, astray : BOOLEAN, disorder : BOOLEAN]
PollCall ==
  [kind : {"rows", "summary", "current", "start", "cancel", "publish"}, page : Page,
   current : BOOLEAN, foreground : BOOLEAN, older : BOOLEAN]

\* One load of the rows counts, and one summary; the user waits for one load at most,
\* which counts; the summary that counts was asked for after the panel on show.
IsRows(c) == c.kind = "rows" /\ c.current
IsSummary(c) == c.kind = "summary" /\ c.current
Lined(s) ==
  /\ \A i, j \in DOMAIN s : IsRows(s[i]) /\ IsRows(s[j]) => i = j
  /\ \A i, j \in DOMAIN s : s[i].foreground /\ s[j].foreground => i = j
  /\ \A i \in DOMAIN s : s[i].foreground => IsRows(s[i])
  /\ \A i, j \in DOMAIN s : IsSummary(s[i]) /\ IsSummary(s[j]) => i = j
  /\ \A i \in DOMAIN s : IsSummary(s[i]) => ~ s[i].older

\* The rows on their way are of the page p in view, or the pager is astray; those the
\* panel has overtaken, or a summary may overtake, do not feed the panel.
Paged(s, p, astray) ==
  ~ astray =>
    /\ \A i \in DOMAIN s : IsRows(s[i]) => s[i].page = p /\ (s[i].older => p # 1)
    /\ \A i, j \in DOMAIN s : i < j /\ IsRows(s[i]) /\ IsSummary(s[j]) => p # 1

\* What a request may lose when another is made.
Lesser(c, d) ==
  /\ c.kind = d.kind /\ c.page = d.page /\ (c.current => d.current)
  /\ (c.foreground => d.foreground) /\ (c.older => d.older)

LEMMA BehindIt ==
  ASSUME NEW x \in Int, NEW y \in Int, NEW n \in Int, x <= y, y <= n - 1
  PROVE  y - (x - 1) \in 1..(n - x) /\ x + (y - (x - 1)) = y + 1
OBVIOUS

LEMMA RemovedIs ==
  ASSUME NEW s \in Seq(PollCall), NEW i \in DOMAIN s
  PROVE  /\ RemoveAt(s, i) \in Seq(PollCall)
         /\ \A j \in DOMAIN RemoveAt(s, i) :
              LET k == IF j < i THEN j ELSE j + 1
              IN  k \in DOMAIN s /\ k # i /\ RemoveAt(s, i)[j] = s[k]
<1>1. i \in 1..Len(s) /\ Len(s) \in Nat
  OBVIOUS
<1>2. \A k \in 1..Len(s) : s[k] \in PollCall
  BY ElementOfSeq
<1> DEFINE a == SubSeq(s, 1, i - 1)  b == SubSeq(s, i + 1, Len(s))
<1>3. /\ a \in Seq(PollCall) /\ Len(a) = i - 1
      /\ \A k \in 1..(i - 1) : a[k] = s[k]
  <2>1. \A k \in 1..(i - 1) : s[k] \in PollCall
    BY <1>1, <1>2
  <2>2. /\ a \in Seq(PollCall) /\ Len(a) = IF 1 <= i - 1 THEN (i - 1) - 1 + 1 ELSE 0
        /\ \A k \in 1..((i - 1) - 1 + 1) : a[k] = s[1 + k - 1]
    BY <1>1, <2>1, SubSeqProperties
  <2> HIDE DEF a
  <2> QED
    BY <1>1, <2>2
<1>4. /\ b \in Seq(PollCall) /\ Len(b) = Len(s) - i
      /\ \A k \in 1..(Len(s) - i) : b[k] = s[i + k]
  <2>1. \A k \in (i + 1)..Len(s) : s[k] \in PollCall
    BY <1>1, <1>2
  <2>2. /\ b \in Seq(PollCall) /\ Len(b) = IF i + 1 <= Len(s) THEN Len(s) - (i + 1) + 1 ELSE 0
        /\ \A k \in 1..(Len(s) - (i + 1) + 1) : b[k] = s[(i + 1) + k - 1]
    BY <1>1, <2>1, SubSeqProperties
  <2> HIDE DEF b
  <2> QED
    BY <1>1, <2>2
<1>5. RemoveAt(s, i) = a \o b
  BY DEF RemoveAt
<1> HIDE DEF a, b
<1>6. /\ a \o b \in Seq(PollCall) /\ Len(a \o b) = Len(a) + Len(b)
      /\ \A k \in 1..(Len(a) + Len(b)) : (a \o b)[k] = IF k <= Len(a) THEN a[k] ELSE b[k - Len(a)]
  BY <1>3, <1>4, ConcatProperties
<1>7. DOMAIN RemoveAt(s, i) = 1..(Len(s) - 1)
  <2>1. Len(a) + Len(b) = Len(s) - 1
    BY <1>1, <1>3, <1>4
  <2> QED
    BY <1>5, <1>6, <2>1, LenProperties
<1>8. ASSUME NEW j \in 1..(Len(s) - 1)
      PROVE  RemoveAt(s, i)[j] = IF j < i THEN s[j] ELSE s[j + 1]
  <2>1. CASE j < i
    <3>0. i \in Int /\ j \in Int /\ Len(s) \in Int /\ 1 <= j /\ j <= Len(s) - 1 /\ j <= i - 1
      BY <1>1, <1>8, <2>1
    <3>1. Len(a) = i - 1 /\ Len(a) + Len(b) = Len(s) - 1
      BY <1>1, <1>3, <1>4
    <3>2. j \in 1..(i - 1) /\ j \in 1..(Len(a) + Len(b)) /\ j <= Len(a)
      BY <3>0, <3>1
    <3>3. (a \o b)[j] = a[j] /\ a[j] = s[j]
      BY <1>3, <1>6, <3>2
    <3> QED
      BY <1>5, <2>1, <3>3
  <2>2. CASE ~ (j < i)
    <3>0. i \in Int /\ j \in Int /\ Len(s) \in Int /\ j <= Len(s) - 1 /\ i <= j
      BY <1>1, <1>8, <2>2
    <3>1. j - (i - 1) \in 1..(Len(s) - i) /\ i + (j - (i - 1)) = j + 1
      BY <3>0, BehindIt
    <3>2. RemoveAt(s, i)[j] = b[j - (i - 1)]
      <4>1. Len(a) = i - 1 /\ Len(a) + Len(b) = Len(s) - 1
        BY <1>1, <1>3, <1>4
      <4>2. j \in 1..(Len(a) + Len(b)) /\ ~ (j <= Len(a))
        BY <3>0, <4>1, <1>8
      <4>3. (a \o b)[j] = b[j - Len(a)]
        BY <1>6, <4>2
      <4> QED
        BY <1>5, <4>1, <4>3
    <3>3. b[j - (i - 1)] = s[i + (j - (i - 1))]
      BY <1>4, <3>1
    <3> QED
      BY <2>2, <3>1, <3>2, <3>3
  <2> QED
    BY <2>1, <2>2
<1>9. ASSUME NEW j \in DOMAIN RemoveAt(s, i)
      PROVE  LET k == IF j < i THEN j ELSE j + 1
             IN  k \in DOMAIN s /\ k # i /\ RemoveAt(s, i)[j] = s[k]
  <2>1. j \in 1..(Len(s) - 1) /\ DOMAIN s = 1..Len(s)
    BY <1>7, <1>9
  <2>2. RemoveAt(s, i)[j] = IF j < i THEN s[j] ELSE s[j + 1]
    BY <1>8, <2>1
  <2>3. CASE j < i
    BY <1>1, <2>1, <2>2, <2>3
  <2>4. CASE ~ (j < i)
    BY <1>1, <2>1, <2>2, <2>4
  <2> QED
    BY <2>3, <2>4
<1> QED
  BY <1>5, <1>6, <1>9

LEMMA LesserAgrees ==
  ASSUME NEW s, Lined(s), NEW t, DOMAIN t = DOMAIN s, \A i \in DOMAIN t : Lesser(t[i], s[i]),
         \A i \in DOMAIN t : t[i].foreground => t[i].current
  PROVE  /\ Lined(t)
         /\ \A p, a : Paged(s, p, a) => Paged(t, p, a)
BY DEF Lined, Paged, Lesser, IsRows, IsSummary

\* One is answered: the others keep their order.
LEMMA RemovedAgrees ==
  ASSUME NEW s \in Seq(PollCall), NEW i \in DOMAIN s, Lined(s)
  PROVE  /\ Lined(RemoveAt(s, i))
         /\ \A p, a : Paged(s, p, a) => Paged(RemoveAt(s, i), p, a)
         /\ IsRows(s[i]) => \A j \in DOMAIN RemoveAt(s, i) : ~ IsRows(RemoveAt(s, i)[j])
         /\ s[i].foreground => \A j \in DOMAIN RemoveAt(s, i) : ~ RemoveAt(s, i)[j].foreground
         /\ (\A k \in DOMAIN s : ~ s[k].foreground) => \A j \in DOMAIN RemoveAt(s, i) : ~ RemoveAt(s, i)[j].foreground
<1> DEFINE t == RemoveAt(s, i)  up(j) == IF j < i THEN j ELSE j + 1
<1>1. t \in Seq(PollCall) /\ \A j \in DOMAIN t : up(j) \in DOMAIN s /\ up(j) # i /\ t[j] = s[up(j)]
  BY RemovedIs
<1>2. DOMAIN t \subseteq Nat /\ i \in Nat
  BY <1>1
<1>3. \A j, k \in Nat : (up(j) = up(k) => j = k) /\ (j < k => up(j) < up(k))
  BY <1>2
<1> HIDE DEF t, up
<1>4. Lined(t)
  BY <1>1, <1>2, <1>3 DEF Lined
<1>5. ASSUME NEW p, NEW a, Paged(s, p, a) PROVE Paged(t, p, a)
  BY <1>1, <1>2, <1>3, <1>5 DEF Paged
<1>6. IsRows(s[i]) => \A j \in DOMAIN t : ~ IsRows(t[j])
  BY <1>1 DEF Lined
<1>7. /\ s[i].foreground => \A j \in DOMAIN t : ~ t[j].foreground
      /\ (\A k \in DOMAIN s : ~ s[k].foreground) => \A j \in DOMAIN t : ~ t[j].foreground
  BY <1>1 DEF Lined
<1> QED
  BY <1>4, <1>5, <1>6, <1>7 DEF t

LEMMA BehindIs ==
  ASSUME NEW s \in Seq(PollCall), NEW kind
  PROVE  /\ Behind(s, kind) \in Seq(PollCall) /\ Len(Behind(s, kind)) = Len(s)
         /\ DOMAIN Behind(s, kind) = DOMAIN s
         /\ \A i \in DOMAIN s : /\ Lesser(Behind(s, kind)[i], s[i])
                                /\ Behind(s, kind)[i].foreground = s[i].foreground
                                /\ Behind(s, kind)[i].kind = kind => ~ Behind(s, kind)[i].current
                                /\ s[i].kind # kind => Behind(s, kind)[i] = s[i]
<1> DEFINE e(i) == IF s[i].kind = kind THEN [s[i] EXCEPT !.current = FALSE, !.older = FALSE] ELSE s[i]
<1>1. ASSUME NEW c \in PollCall
      PROVE  /\ [c EXCEPT !.current = FALSE, !.older = FALSE] \in PollCall
             /\ Lesser([c EXCEPT !.current = FALSE, !.older = FALSE], c)
             /\ ~ [c EXCEPT !.current = FALSE, !.older = FALSE].current
             /\ [c EXCEPT !.current = FALSE, !.older = FALSE].foreground = c.foreground
             /\ Lesser(c, c)
  BY DEF PollCall, Lesser
<1>2. DOMAIN s = 1..Len(s) /\ Len(s) \in Nat /\ \A i \in 1..Len(s) : s[i] \in PollCall
  BY LenProperties, ElementOfSeq
<1>3. \A i \in 1..Len(s) : e(i) \in PollCall
  BY <1>1, <1>2
<1>4. Behind(s, kind) = [i \in 1..Len(s) |-> e(i)]
  BY <1>2 DEF Behind
<1> HIDE DEF e
<1>5. [i \in 1..Len(s) |-> e(i)] \in Seq(PollCall) /\ Len([i \in 1..Len(s) |-> e(i)]) = Len(s)
  BY <1>2, <1>3, IsASeq
<1>6. \A i \in 1..Len(s) : Behind(s, kind)[i] = e(i)
  BY <1>4
<1> USE DEF e
<1>7. ASSUME NEW i \in 1..Len(s)
      PROVE  /\ Lesser(Behind(s, kind)[i], s[i])
             /\ Behind(s, kind)[i].foreground = s[i].foreground
             /\ Behind(s, kind)[i].kind = kind => ~ Behind(s, kind)[i].current
             /\ s[i].kind # kind => Behind(s, kind)[i] = s[i]
  <2>1. CASE s[i].kind = kind
    BY <1>1, <1>2, <1>6, <2>1
  <2>2. CASE s[i].kind # kind
    BY <1>1, <1>2, <1>6, <2>2
  <2> QED
    BY <2>1, <2>2
<1> QED
  BY <1>2, <1>4, <1>5, <1>7

LEMMA OutrunIs ==
  ASSUME NEW s \in Seq(PollCall)
  PROVE  /\ Outrun(s) \in Seq(PollCall) /\ DOMAIN Outrun(s) = DOMAIN s
         /\ \A i \in DOMAIN s : Lesser(Outrun(s)[i], s[i]) /\ ~ Outrun(s)[i].foreground
<1> DEFINE e(i) == [s[i] EXCEPT !.foreground = FALSE]
<1>1. ASSUME NEW c \in PollCall
      PROVE  /\ [c EXCEPT !.foreground = FALSE] \in PollCall
             /\ Lesser([c EXCEPT !.foreground = FALSE], c)
             /\ ~ [c EXCEPT !.foreground = FALSE].foreground
  BY DEF PollCall, Lesser
<1>2. DOMAIN s = 1..Len(s) /\ Len(s) \in Nat /\ \A i \in 1..Len(s) : s[i] \in PollCall
  BY LenProperties, ElementOfSeq
<1>3. \A i \in 1..Len(s) : e(i) \in PollCall /\ Lesser(e(i), s[i]) /\ ~ e(i).foreground
  BY <1>1, <1>2
<1>4. Outrun(s) = [i \in 1..Len(s) |-> e(i)]
  BY <1>2 DEF Outrun
<1> HIDE DEF e
<1>5. [i \in 1..Len(s) |-> e(i)] \in Seq(PollCall)
  BY <1>2, <1>3, IsASeq
<1> QED
  BY <1>2, <1>3, <1>4, <1>5

LEMMA AppendedIs ==
  ASSUME NEW s \in Seq(PollCall), NEW c \in PollCall
  PROVE  /\ Append(s, c) \in Seq(PollCall) /\ DOMAIN Append(s, c) = 1..(Len(s) + 1) /\ Len(s) \in Nat
         /\ DOMAIN s = 1..Len(s)
         /\ \A i \in DOMAIN s : Append(s, c)[i] = s[i]
         /\ Append(s, c)[Len(s) + 1] = c
BY LenProperties

LEMMA CallIs ==
  ASSUME NEW kind \in {"rows", "summary", "current", "start", "cancel", "publish"}, NEW p \in Page, NEW fg \in BOOLEAN
  PROVE  /\ Call(kind, p, fg) \in PollCall /\ Call(kind, p, fg).kind = kind /\ Call(kind, p, fg).page = p
         /\ Call(kind, p, fg).current /\ Call(kind, p, fg).foreground = fg /\ ~ Call(kind, p, fg).older
BY DEF Call, PollCall

\* A load leaves every earlier load behind, and only its own rows count.
LEMMA LoadAgrees ==
  ASSUME NEW s \in Seq(PollCall), Lined(s), NEW p \in Page, NEW silent \in BOOLEAN,
         silent => \A i \in DOMAIN s : ~ s[i].foreground, NEW a
  PROVE  /\ Load(s, p, silent) \in Seq(PollCall) /\ Lined(Load(s, p, silent)) /\ Paged(Load(s, p, silent), p, a)
         /\ silent => \A i \in DOMAIN Load(s, p, silent) : ~ Load(s, p, silent)[i].foreground
<1>1. PICK o \in Seq(PollCall) :
        /\ o = IF silent THEN s ELSE Outrun(s)
        /\ DOMAIN o = DOMAIN s
        /\ \A i \in DOMAIN s : Lesser(o[i], s[i]) /\ ~ o[i].foreground
  <2>1. CASE silent
    <3>1. \A i \in DOMAIN s : Lesser(s[i], s[i])
      BY DEF Lesser
    <3> QED
      BY <2>1, <3>1
  <2>2. CASE ~ silent
    BY <2>2, OutrunIs
  <2> QED
    BY <2>1, <2>2
<1>2. Lined(o)
  BY <1>1, LesserAgrees
<1>3. PICK b \in Seq(PollCall) :
        /\ b = Behind(o, "rows") /\ DOMAIN b = DOMAIN o
        /\ \A i \in DOMAIN b : /\ Lesser(b[i], o[i]) /\ b[i].foreground = o[i].foreground
                               /\ b[i].kind = "rows" => ~ b[i].current
  BY BehindIs
<1>4. \A i \in DOMAIN b : ~ b[i].foreground /\ ~ IsRows(b[i])
  BY <1>1, <1>3 DEF IsRows
<1>5. Lined(b)
  BY <1>2, <1>3, <1>4, LesserAgrees
<1>a. PICK fg \in BOOLEAN : fg = ~ silent
  OBVIOUS
<1>6. PICK c \in PollCall : /\ c = Call("rows", p, fg) /\ c.kind = "rows" /\ c.page = p /\ c.current
                            /\ c.foreground = fg /\ ~ c.older
  BY CallIs
<1>7. PICK t \in Seq(PollCall) :
        /\ t = Append(b, c) /\ DOMAIN t = 1..(Len(b) + 1) /\ Len(b) \in Nat /\ DOMAIN b = 1..Len(b)
        /\ \A i \in DOMAIN b : t[i] = b[i]
        /\ t[Len(b) + 1] = c
  BY AppendedIs
<1>8. t = Load(s, p, silent)
  BY <1>1, <1>3, <1>a, <1>6, <1>7 DEF Load
<1>9. \A i \in DOMAIN t : (i \in DOMAIN b /\ t[i] = b[i]) \/ (i = Len(b) + 1 /\ t[i] = c)
  BY <1>7
<1>10. IsRows(c) /\ ~ IsSummary(c)
  BY <1>6 DEF IsRows, IsSummary
<1>11. Lined(t)
  BY <1>4, <1>5, <1>9, <1>10 DEF Lined
<1>12. \A i \in DOMAIN t : IsRows(t[i]) => i = Len(b) + 1 /\ t[i] = c
  BY <1>4, <1>9
<1>13. \A i \in DOMAIN t : i <= Len(b) + 1 /\ i \in Nat
  BY <1>7
<1>14. Paged(t, p, a)
  <2>1. \A i \in DOMAIN t : IsRows(t[i]) => t[i].page = p /\ (t[i].older => p # 1)
    BY <1>6, <1>12
  <2>2. \A i, j \in DOMAIN t : i < j => ~ IsRows(t[i])
    BY <1>7, <1>12, <1>13
  <2> QED
    BY <2>1, <2>2 DEF Paged
<1>15. silent => \A i \in DOMAIN t : ~ t[i].foreground
  BY <1>4, <1>a, <1>6, <1>9
<1> QED
  BY <1>8, <1>11, <1>14, <1>15

\* The panel asks for page 1 only while another page is in view.
LEMMA SummaryAgrees ==
  ASSUME NEW s \in Seq(PollCall), Lined(s), NEW p \in Page, NEW q, NEW a, Paged(s, q, a),
         p = q \/ a
  PROVE  /\ Summary(s, p) \in Seq(PollCall) /\ Lined(Summary(s, p)) /\ Paged(Summary(s, p), q, a)
         /\ (\A i \in DOMAIN s : ~ s[i].foreground) => \A i \in DOMAIN Summary(s, p) : ~ Summary(s, p)[i].foreground
<1>1. CASE p = 1
  BY <1>1 DEF Summary
<1>2. CASE p # 1
  <2>1. PICK b \in Seq(PollCall) :
          /\ b = Behind(s, "summary") /\ DOMAIN b = DOMAIN s
          /\ \A i \in DOMAIN b : /\ Lesser(b[i], s[i]) /\ b[i].foreground = s[i].foreground
                                 /\ b[i].kind = "summary" => ~ b[i].current
                                 /\ s[i].kind # "summary" => b[i] = s[i]
    BY BehindIs
  <2>2. \A i \in DOMAIN b : ~ IsSummary(b[i]) /\ (b[i].foreground => b[i].current)
    BY <2>1 DEF IsSummary, Lined, IsRows
  <2>3. Lined(b) /\ Paged(b, q, a)
    BY <2>1, <2>2, LesserAgrees
  <2>4. 1 \in Page
    BY HistoryAssumption
  <2>5. PICK c \in PollCall : /\ c = Call("summary", 1, FALSE) /\ c.kind = "summary" /\ ~ c.foreground /\ ~ c.older
    BY <2>4, CallIs
  <2>6. PICK t \in Seq(PollCall) :
          /\ t = Append(b, c) /\ DOMAIN t = 1..(Len(b) + 1) /\ Len(b) \in Nat /\ DOMAIN b = 1..Len(b)
          /\ \A i \in DOMAIN b : t[i] = b[i]
          /\ t[Len(b) + 1] = c
    BY AppendedIs
  <2>7. t = Summary(s, p)
    BY <1>2, <2>1, <2>5, <2>6 DEF Summary
  <2>8. \A i \in DOMAIN t : (i \in DOMAIN b /\ t[i] = b[i]) \/ (i = Len(b) + 1 /\ t[i] = c)
    BY <2>6
  <2>9. ~ IsRows(c)
    BY <2>5 DEF IsRows
  <2>10. Lined(t)
    BY <2>2, <2>3, <2>5, <2>8, <2>9 DEF Lined
  <2>11. Paged(t, q, a)
    BY <1>2, <2>3, <2>8, <2>9 DEF Paged
  <2>12. (\A i \in DOMAIN s : ~ s[i].foreground) => \A i \in DOMAIN t : ~ t[i].foreground
    BY <2>1, <2>5, <2>8
  <2> QED
    BY <2>7, <2>10, <2>11, <2>12
<1> QED
  BY <1>1, <1>2

\* Requests that are neither rows nor summaries come and go without a trace.
LEMMA OthersAgree ==
  ASSUME NEW s \in Seq(PollCall), Lined(s), NEW c \in PollCall, c.kind \notin {"rows", "summary"}, ~ c.foreground
  PROVE  /\ Append(s, c) \in Seq(PollCall) /\ Lined(Append(s, c))
         /\ \A p, a : Paged(s, p, a) => Paged(Append(s, c), p, a)
         /\ (\A i \in DOMAIN s : ~ s[i].foreground) => \A i \in DOMAIN Append(s, c) : ~ Append(s, c)[i].foreground
<1>1. PICK t \in Seq(PollCall) :
        /\ t = Append(s, c) /\ DOMAIN t = 1..(Len(s) + 1) /\ Len(s) \in Nat /\ DOMAIN s = 1..Len(s)
        /\ \A i \in DOMAIN s : t[i] = s[i]
        /\ t[Len(s) + 1] = c
  BY AppendedIs
<1>2. \A i \in DOMAIN t : (i \in DOMAIN s /\ t[i] = s[i]) \/ (i = Len(s) + 1 /\ t[i] = c)
  BY <1>1
<1>3. ~ IsRows(c) /\ ~ IsSummary(c)
  BY DEF IsRows, IsSummary
<1>4. Lined(t)
  BY <1>2, <1>3 DEF Lined
<1>5. \A p, a : Paged(s, p, a) => Paged(t, p, a)
  BY <1>2, <1>3 DEF Paged
<1>6. (\A i \in DOMAIN s : ~ s[i].foreground) => \A i \in DOMAIN t : ~ t[i].foreground
  BY <1>2
<1> QED
  BY <1>1, <1>4, <1>5, <1>6

LEMMA InForceAgrees ==
  ASSUME NEW s \in Seq(PollCall), Lined(s)
  PROVE  /\ InForce(s) \in Seq(PollCall) /\ Lined(InForce(s))
         /\ \A p, a : Paged(s, p, a) => Paged(InForce(s), p, a)
         /\ (\A i \in DOMAIN s : ~ s[i].foreground) => \A i \in DOMAIN InForce(s) : ~ InForce(s)[i].foreground
<1>1. PICK b \in Seq(PollCall) :
        /\ b = Behind(s, "current") /\ DOMAIN b = DOMAIN s
        /\ \A i \in DOMAIN b : /\ Lesser(b[i], s[i]) /\ b[i].foreground = s[i].foreground
                               /\ s[i].kind # "current" => b[i] = s[i]
  BY BehindIs
<1>2. \A i \in DOMAIN b : b[i].foreground => b[i].current
  BY <1>1 DEF Lined, IsRows
<1>3. Lined(b) /\ \A p, a : Paged(s, p, a) => Paged(b, p, a)
  BY <1>1, <1>2, LesserAgrees
<1>4. 1 \in Page
  BY HistoryAssumption
<1>5. PICK c \in PollCall : c = Call("current", 1, FALSE) /\ c.kind = "current" /\ ~ c.foreground
  BY <1>4, CallIs
<1>6. InForce(s) = Append(b, c)
  BY <1>1, <1>5 DEF InForce
<1>7. /\ Append(b, c) \in Seq(PollCall) /\ Lined(Append(b, c))
      /\ \A p, a : Paged(b, p, a) => Paged(Append(b, c), p, a)
      /\ (\A i \in DOMAIN b : ~ b[i].foreground) => \A i \in DOMAIN Append(b, c) : ~ Append(b, c)[i].foreground
  BY <1>3, <1>5, OthersAgree
<1> QED
  BY <1>1, <1>3, <1>6, <1>7

\* The panel shows what came with request i: what was asked before is older.
LEMMA ShowsPanelIs ==
  ASSUME NEW s \in Seq(PollCall), NEW i \in DOMAIN s
  PROVE  /\ ShowsPanel(s, i) \in Seq(PollCall) /\ DOMAIN ShowsPanel(s, i) = DOMAIN s
         /\ \A j \in DOMAIN s :
              /\ ShowsPanel(s, i)[j].kind = s[j].kind /\ ShowsPanel(s, i)[j].page = s[j].page
              /\ ShowsPanel(s, i)[j].current = s[j].current /\ ShowsPanel(s, i)[j].foreground = s[j].foreground
              /\ ShowsPanel(s, i)[j].older => s[j].older \/ (j < i /\ (IsRows(s[j]) \/ IsSummary(s[j])))
<1> DEFINE e(j) == IF j < i /\ s[j].current /\ s[j].kind \in {"rows", "summary"} THEN [s[j] EXCEPT !.older = TRUE]
                   ELSE s[j]
<1>1. ASSUME NEW c \in PollCall
      PROVE  /\ [c EXCEPT !.older = TRUE] \in PollCall
             /\ [c EXCEPT !.older = TRUE].kind = c.kind /\ [c EXCEPT !.older = TRUE].page = c.page
             /\ [c EXCEPT !.older = TRUE].current = c.current
             /\ [c EXCEPT !.older = TRUE].foreground = c.foreground
  BY DEF PollCall
<1>2. DOMAIN s = 1..Len(s) /\ Len(s) \in Nat /\ \A j \in 1..Len(s) : s[j] \in PollCall
  BY LenProperties, ElementOfSeq
<1>3. \A j \in 1..Len(s) :
        /\ e(j) \in PollCall
        /\ e(j).kind = s[j].kind /\ e(j).page = s[j].page
        /\ e(j).current = s[j].current /\ e(j).foreground = s[j].foreground
        /\ e(j).older => s[j].older \/ (j < i /\ (IsRows(s[j]) \/ IsSummary(s[j])))
  BY <1>1, <1>2 DEF IsRows, IsSummary
<1>4. ShowsPanel(s, i) = [j \in 1..Len(s) |-> e(j)]
  BY <1>2 DEF ShowsPanel
<1> HIDE DEF e
<1>5. [j \in 1..Len(s) |-> e(j)] \in Seq(PollCall)
  BY <1>2, <1>3, IsASeq
<1> QED
  BY <1>2, <1>3, <1>4, <1>5

\* At rest, the rows are those of the page, and the panel has never gone back.
PagerInv(r, s) ==
  /\ r \in PagerRow /\ s \in Seq(PollCall) /\ Lined(s) /\ Paged(s, r.page, r.astray)
  /\ r.loading = r.pending
  /\ ~ r.pending => \A i \in DOMAIN s : ~ s[i].foreground
  /\ ~ r.loading /\ ~ r.astray /\ r.rows # None => r.rows = r.page
  /\ ~ r.disorder

LEMMA WaitingIs ==
  ASSUME NEW r \in PagerRow
  PROVE  /\ Waiting(r) \in PagerRow /\ Waiting(r).page = r.page /\ Waiting(r).astray = r.astray
         /\ Waiting(r).loading /\ Waiting(r).pending /\ Waiting(r).disorder = r.disorder
         /\ Waiting(r).force = r.force
BY DEF Waiting, PagerRow

LEMMA WaitingAgrees ==
  ASSUME NEW r \in PagerRow, r.loading, r.pending, ~ r.disorder, NEW s \in Seq(PollCall), Lined(s),
         Paged(s, r.page, r.astray)
  PROVE  PagerInv(r, s)
BY DEF PagerInv, PagerRow

LEMMA TurnPageKeeps ==
  ASSUME PagerInv(pager, polls), NEW p \in Page, TurnPage(p)
  PROVE  PagerInv(pager', polls')
<1>1. PICK r : r = [pager EXCEPT !.page = p]
  OBVIOUS
<1>2. r \in PagerRow /\ r.page = p /\ ~ r.disorder
  BY <1>1 DEF PagerInv, PagerRow
<1>3. pager' = Waiting(r) /\ polls' = Summary(Load(polls, p, FALSE), p)
  BY <1>1 DEF TurnPage
<1>4. pager' \in PagerRow /\ pager'.page = p /\ pager'.loading /\ pager'.pending /\ ~ pager'.disorder
  BY <1>2, <1>3, WaitingIs
<1>5. /\ Load(polls, p, FALSE) \in Seq(PollCall) /\ Lined(Load(polls, p, FALSE))
      /\ Paged(Load(polls, p, FALSE), p, pager'.astray)
  BY LoadAgrees DEF PagerInv
<1>6. polls' \in Seq(PollCall) /\ Lined(polls') /\ Paged(polls', p, pager'.astray)
  BY <1>3, <1>5, SummaryAgrees
<1> QED
  BY <1>4, <1>6, WaitingAgrees

LEMMA PollKeeps ==
  ASSUME PagerInv(pager, polls), Poll
  PROVE  PagerInv(pager', polls')
<1>0. /\ pager \in PagerRow /\ polls \in Seq(PollCall) /\ Lined(polls) /\ Paged(polls, pager.page, pager.astray)
      /\ pager.page \in Page
  BY DEF PagerInv, PagerRow
<1>1. PICK o : o = PollRows(polls)
  OBVIOUS
<1>2. /\ o \in Seq(PollCall) /\ Lined(o) /\ Paged(o, pager.page, pager.astray)
      /\ ~ pager.pending => \A i \in DOMAIN o : ~ o[i].foreground
  <2>1. CASE pager.pending
    BY <1>0, <1>1, <2>1 DEF PollRows
  <2>2. CASE ~ pager.pending
    <3>1. \A i \in DOMAIN polls : ~ polls[i].foreground
      BY <2>2 DEF PagerInv
    <3>2. o = Load(polls, pager.page, TRUE)
      BY <1>1, <2>2 DEF PollRows
    <3> QED
      BY <1>0, <3>1, <3>2, LoadAgrees
  <2> QED
    BY <2>1, <2>2
<1>3. polls' = Summary(o, pager.page)
  BY <1>1 DEF Poll
<1>4. /\ polls' \in Seq(PollCall) /\ Lined(polls') /\ Paged(polls', pager.page, pager.astray)
      /\ ~ pager.pending => \A i \in DOMAIN polls' : ~ polls'[i].foreground
  BY <1>0, <1>2, <1>3, SummaryAgrees
<1>5. PICK b \in BOOLEAN : pager' = [pager EXCEPT !.error = b]
  <2>1. PICK b \in BOOLEAN : b = (pager.error /\ pager.pending)
    OBVIOUS
  <2>2. pager' = [pager EXCEPT !.error = b]
    BY <1>0, <2>1 DEF Poll, PagerRow
  <2> QED
    BY <2>2
<1>6. /\ pager' \in PagerRow /\ pager'.page = pager.page /\ pager'.astray = pager.astray
      /\ pager'.pending = pager.pending /\ pager'.loading = pager.loading /\ pager'.rows = pager.rows
      /\ pager'.disorder = pager.disorder
  BY <1>0, <1>5 DEF PagerRow
<1> QED
  BY <1>4, <1>6 DEF PagerInv

\* What leaves the pages and the panel alone.
LEMMA AsideKeeps ==
  ASSUME PagerInv(pager, polls), NEW r \in PagerRow, NEW s \in Seq(PollCall),
         r.page = pager.page, r.astray = pager.astray, r.pending = pager.pending, r.loading = pager.loading,
         r.rows = pager.rows, r.disorder = pager.disorder,
         Lined(s), \A p, a : Paged(polls, p, a) => Paged(s, p, a),
         (\A i \in DOMAIN polls : ~ polls[i].foreground) => \A i \in DOMAIN s : ~ s[i].foreground
  PROVE  PagerInv(r, s)
BY DEF PagerInv

LEMMA AsidesKeep ==
  ASSUME PagerInv(pager, polls),
         \/ Minute \/ HandleStart \/ HandleCancel \/ OpenPublish \/ ConfirmPublish
         \/ \E i \in DOMAIN polls : SummaryFails(i) \/ \E b \in BOOLEAN : InForceArrives(i, b)
         \/ \E i \in DOMAIN polls : Acted(i, FALSE)
  PROVE  PagerInv(pager', polls')
<1>0. /\ pager \in PagerRow /\ polls \in Seq(PollCall) /\ Lined(polls) /\ pager.page \in Page
  BY DEF PagerInv, PagerRow
<1>1. CASE Minute
  <2>1. pager' = [pager EXCEPT !.force = "CHECKING"] /\ polls' = InForce(polls)
    BY <1>1 DEF Minute
  <2>2. /\ pager' \in PagerRow /\ pager'.page = pager.page /\ pager'.astray = pager.astray
        /\ pager'.pending = pager.pending /\ pager'.loading = pager.loading
        /\ pager'.rows = pager.rows /\ pager'.disorder = pager.disorder
    BY <1>0, <2>1 DEF PagerRow
  <2> QED
    BY <1>0, <2>1, <2>2, InForceAgrees, AsideKeeps
<1>2. CASE \E what \in {"start", "cancel", "publish"} : Acts(what)
  <2>1. PICK what \in {"start", "cancel", "publish"} : Acts(what)
    BY <1>2
  <2>0. what \in {"rows", "summary", "current", "start", "cancel", "publish"}
    BY <2>1
  <2>p. PICK p \in Page : p = pager.page
    BY <1>0
  <2>2. PICK c \in PollCall : c = Call(what, p, FALSE) /\ c.kind = what /\ ~ c.foreground
    BY <2>0, CallIs
  <2>3. pager' = [pager EXCEPT !.busy = @ \cup {what}] /\ polls' = Append(polls, c)
    BY <2>1, <2>p, <2>2 DEF Acts
  <2>4. /\ pager' \in PagerRow /\ pager'.page = pager.page /\ pager'.astray = pager.astray
        /\ pager'.pending = pager.pending /\ pager'.loading = pager.loading
        /\ pager'.rows = pager.rows /\ pager'.disorder = pager.disorder
    BY <1>0, <2>3 DEF PagerRow
  <2>5. c.kind \notin {"rows", "summary"}
    BY <2>1, <2>2
  <2> QED
    BY <1>0, <2>2, <2>3, <2>4, <2>5, OthersAgree, AsideKeeps
<1>3. CASE OpenPublish
  <2>1. pager' = [pager EXCEPT !.target = TRUE] /\ polls' = polls
    BY <1>3 DEF OpenPublish
  <2>2. /\ pager' \in PagerRow /\ pager'.page = pager.page /\ pager'.astray = pager.astray
        /\ pager'.pending = pager.pending /\ pager'.loading = pager.loading
        /\ pager'.rows = pager.rows /\ pager'.disorder = pager.disorder
    BY <1>0, <2>1 DEF PagerRow
  <2> QED
    BY <1>0, <2>1, <2>2, AsideKeeps
<1>4. ASSUME NEW i \in DOMAIN polls, SummaryFails(i) \/ (\E b \in BOOLEAN : InForceArrives(i, b)) \/ Acted(i, FALSE)
      PROVE  PagerInv(pager', polls')
  <2>1. polls' = RemoveAt(polls, i)
    BY <1>4 DEF SummaryFails, InForceArrives, Acted
  <2>2. /\ pager' \in PagerRow /\ pager'.page = pager.page /\ pager'.astray = pager.astray
        /\ pager'.pending = pager.pending /\ pager'.loading = pager.loading
        /\ pager'.rows = pager.rows /\ pager'.disorder = pager.disorder
    <3>1. CASE pager' = pager
      BY <1>0, <3>1
    <3>2. CASE \E b \in {"READY", "ERROR"} : pager' = [pager EXCEPT !.force = b]
      BY <1>0, <3>2 DEF PagerRow
    <3>3. CASE Acted(i, FALSE)
      <4>1. PICK busy : busy = pager.busy \ {polls[i].kind}
        OBVIOUS
      <4>2. pager' = [pager EXCEPT !.busy = busy] /\ busy \in SUBSET {"start", "cancel", "publish"}
        BY <1>0, <3>3, <4>1 DEF Acted, PagerRow
      <4> QED
        BY <1>0, <4>2 DEF PagerRow
    <3> QED
      BY <1>4, <3>1, <3>2, <3>3 DEF SummaryFails, InForceArrives
  <2>3. polls' \in Seq(PollCall)
    BY <1>0, <2>1, RemovedIs
  <2> QED
    BY <1>0, <2>1, <2>2, <2>3, RemovedAgrees, AsideKeeps
<1> QED
  BY <1>1, <1>2, <1>3, <1>4 DEF HandleStart, HandleCancel, ConfirmPublish

LEMMA ActedKeeps ==
  ASSUME PagerInv(pager, polls), NEW i \in DOMAIN polls, Acted(i, TRUE)
  PROVE  PagerInv(pager', polls')
<1>0. /\ pager \in PagerRow /\ polls \in Seq(PollCall) /\ Lined(polls)
      /\ polls[i] \in PollCall
  BY ElementOfSeq, LenProperties DEF PagerInv
<1>1. PICK p \in Page : p = polls[i].page
  BY <1>0 DEF PollCall
<1>2. PICK r : r = [pager EXCEPT !.busy = @ \ {polls[i].kind}, !.target = @ /\ polls[i].kind # "publish"]
  OBVIOUS
<1>3. r \in PagerRow /\ r.page = pager.page /\ r.disorder = pager.disorder
  <2>1. PICK busy \in SUBSET {"start", "cancel", "publish"} : busy = pager.busy \ {polls[i].kind}
    BY <1>0 DEF PagerRow
  <2>2. PICK target \in BOOLEAN : target = (pager.target /\ polls[i].kind # "publish")
    OBVIOUS
  <2>3. r = [pager EXCEPT !.busy = busy, !.target = target]
    BY <1>0, <1>2, <2>1, <2>2 DEF PagerRow
  <2> QED
    BY <1>0, <2>3 DEF PagerRow
<1>4. PICK w \in PagerRow : /\ w = Waiting(r) /\ w.page = pager.page /\ w.loading /\ w.pending
                            /\ w.disorder = pager.disorder
  BY <1>3, WaitingIs
<1>5. PICK astray \in BOOLEAN : astray = (w.astray \/ p # pager.page)
  BY <1>4 DEF PagerRow
<1>6. PICK force \in {"CHECKING", "READY", "ERROR"} :
        force = IF polls[i].kind = "publish" THEN "CHECKING" ELSE w.force
  BY <1>4 DEF PagerRow
<1>7. pager' = [w EXCEPT !.astray = astray, !.force = force]
  BY <1>1, <1>2, <1>4, <1>5, <1>6 DEF Acted, PagerRow
<1>8. /\ pager' \in PagerRow /\ pager'.page = pager.page /\ pager'.loading /\ pager'.pending
      /\ pager'.astray = astray /\ ~ pager'.disorder
  <2>1. ~ pager.disorder
    BY DEF PagerInv
  <2>2. pager' \in PagerRow
    BY <1>4, <1>7 DEF PagerRow
  <2>3. /\ pager'.page = w.page /\ pager'.loading = w.loading /\ pager'.pending = w.pending
        /\ pager'.astray = astray /\ pager'.disorder = w.disorder
    BY <1>4, <1>7 DEF PagerRow
  <2> QED
    BY <1>4, <2>1, <2>2, <2>3
<1>9. PICK s \in Seq(PollCall) : s = RemoveAt(polls, i) /\ Lined(s)
  BY <1>0, RemovedIs, RemovedAgrees
<1>10. PICK l \in Seq(PollCall) : l = Load(s, p, FALSE) /\ Lined(l) /\ Paged(l, p, astray)
  BY <1>9, LoadAgrees
<1>11. PICK m \in Seq(PollCall) : m = Summary(l, p) /\ Lined(m) /\ Paged(m, p, astray)
  BY <1>10, SummaryAgrees
<1>12. polls' = IF polls[i].kind = "publish" THEN InForce(m) ELSE m
  BY <1>1, <1>9, <1>10, <1>11 DEF Acted
<1>13. polls' \in Seq(PollCall) /\ Lined(polls') /\ Paged(polls', p, astray)
  BY <1>11, <1>12, InForceAgrees
<1>14. Paged(polls', pager'.page, pager'.astray)
  BY <1>5, <1>8, <1>13 DEF Paged
<1> QED
  BY <1>8, <1>13, <1>14, WaitingAgrees

\* Only a request somebody waits for lets go, and it is the only one.
LEMMA LetGoKeeps ==
  ASSUME NEW s \in Seq(PollCall), Lined(s), NEW r \in PagerRow, r.loading = r.pending, ~ r.disorder,
         ~ r.pending => \A i \in DOMAIN s : ~ s[i].foreground,
         NEW c \in PollCall, c.foreground => \A i \in DOMAIN s : ~ s[i].foreground,
         (c.foreground \/ ~ r.loading) /\ ~ r.astray /\ r.rows # None => r.rows = r.page,
         Paged(s, r.page, r.astray)
  PROVE  PagerInv(LetGo(r, c), s)
<1>1. CASE c.foreground
  <2>1. LetGo(r, c) = [r EXCEPT !.loading = FALSE, !.pending = FALSE]
    BY <1>1 DEF LetGo
  <2>2. /\ LetGo(r, c) \in PagerRow /\ LetGo(r, c).page = r.page /\ LetGo(r, c).astray = r.astray
        /\ LetGo(r, c).rows = r.rows /\ LetGo(r, c).loading = FALSE /\ LetGo(r, c).pending = FALSE
        /\ LetGo(r, c).disorder = r.disorder
    BY <2>1 DEF PagerRow
  <2> QED
    BY <1>1, <2>2 DEF PagerInv
<1>2. CASE ~ c.foreground
  BY <1>2 DEF LetGo, PagerInv
<1> QED
  BY <1>1, <1>2

LEMMA RowsFailKeeps ==
  ASSUME PagerInv(pager, polls), NEW i \in DOMAIN polls, RowsFail(i)
  PROVE  PagerInv(pager', polls')
<1>0. /\ pager \in PagerRow /\ polls \in Seq(PollCall) /\ Lined(polls) /\ Paged(polls, pager.page, pager.astray)
      /\ polls[i] \in PollCall
  BY ElementOfSeq, LenProperties DEF PagerInv
<1>1. PICK c \in PollCall : c = polls[i]
  BY <1>0
<1>2. c.kind = "rows" /\ c.current \in BOOLEAN
  BY <1>1 DEF RowsFail, PollCall
<1>3. PICK error \in BOOLEAN : error = (pager.error \/ c.current)
  BY <1>0, <1>2 DEF PagerRow
<1>4. PICK astray \in BOOLEAN : astray = (pager.astray \/ (c.current /\ pager.rows # pager.page))
  BY <1>0, <1>2 DEF PagerRow
<1>5. PICK r : r = [pager EXCEPT !.error = error, !.astray = astray]
  OBVIOUS
<1>6. pager' = LetGo(r, c)
  BY <1>0, <1>1, <1>3, <1>4, <1>5 DEF RowsFail, PagerRow
<1>7. /\ r \in PagerRow /\ r.page = pager.page /\ r.rows = pager.rows /\ r.loading = pager.loading
      /\ r.pending = pager.pending /\ r.disorder = pager.disorder /\ r.astray = astray
  BY <1>0, <1>5 DEF PagerRow
<1>8. PICK s \in Seq(PollCall) : s = RemoveAt(polls, i)
  BY <1>0, RemovedIs
<1>9. /\ Lined(s) /\ Paged(s, pager.page, pager.astray)
      /\ c.foreground => \A j \in DOMAIN s : ~ s[j].foreground
      /\ (\A k \in DOMAIN polls : ~ polls[k].foreground) => \A j \in DOMAIN s : ~ s[j].foreground
  BY <1>0, <1>1, <1>8, RemovedAgrees
<1>10. Paged(s, r.page, r.astray)
  BY <1>4, <1>7, <1>9 DEF Paged
<1>11. c.foreground => c.current
  BY <1>0, <1>1 DEF Lined, IsRows
<1>12. (c.foreground \/ ~ r.loading) /\ ~ r.astray /\ r.rows # None => r.rows = r.page
  BY <1>4, <1>7, <1>11 DEF PagerInv
<1>13. r.loading = r.pending /\ ~ r.disorder /\ (~ r.pending => \A j \in DOMAIN s : ~ s[j].foreground)
  BY <1>7, <1>9 DEF PagerInv
<1>14. PagerInv(LetGo(r, c), s)
  BY <1>7, <1>9, <1>10, <1>12, <1>13, LetGoKeeps
<1> QED
  BY <1>6, <1>8, <1>14 DEF RowsFail

LEMMA RowsTurnKeeps ==
  ASSUME PagerInv(pager, polls), NEW i \in DOMAIN polls, NEW active \in BOOLEAN, RowsArrive(i, TRUE, active),
         polls[i].current, polls[i].page > 1
  PROVE  PagerInv(pager', polls')
<1>0. /\ pager \in PagerRow /\ polls \in Seq(PollCall) /\ Lined(polls) /\ Paged(polls, pager.page, pager.astray)
      /\ polls[i] \in PollCall
  BY ElementOfSeq, LenProperties DEF PagerInv
<1>1. PICK c \in PollCall : c = polls[i]
  BY <1>0
<1>2. c.kind = "rows" /\ IsRows(c)
  BY <1>1 DEF RowsArrive, IsRows
<1>3. PICK s \in Seq(PollCall) : s = RemoveAt(polls, i)
  BY <1>0, RemovedIs
<1>4. /\ Lined(s) /\ Paged(s, pager.page, pager.astray)
      /\ c.foreground => \A j \in DOMAIN s : ~ s[j].foreground
      /\ (\A k \in DOMAIN polls : ~ polls[k].foreground) => \A j \in DOMAIN s : ~ s[j].foreground
  BY <1>0, <1>1, <1>3, RemovedAgrees
<1>5. CASE pager.page = 1
  <2>1. pager' = LetGo(pager, c) /\ polls' = s
    BY <1>1, <1>3, <1>5 DEF RowsArrive
  <2>2. c.page # 1
    BY <1>1
  <2>3. pager.astray
    BY <1>0, <1>1, <1>2, <1>5, <2>2 DEF Paged
  <2> QED
    BY <1>0, <1>4, <2>1, <2>3, LetGoKeeps DEF PagerInv
<1>6. CASE pager.page # 1
  <2>1. PICK r : r = [pager EXCEPT !.page = 1]
    OBVIOUS
  <2>2. pager' = Waiting(r) /\ polls' = Load(s, 1, FALSE)
    BY <1>1, <1>3, <1>6, <2>1 DEF RowsArrive
  <2>3. r \in PagerRow /\ r.page = 1 /\ r.disorder = pager.disorder
    BY <1>0, <2>1, HistoryAssumption DEF PagerRow
  <2>4. /\ pager' \in PagerRow /\ pager'.page = 1 /\ pager'.loading /\ pager'.pending /\ ~ pager'.disorder
    BY <2>2, <2>3, WaitingIs DEF PagerInv
  <2>5. polls' \in Seq(PollCall) /\ Lined(polls') /\ Paged(polls', 1, pager'.astray)
    BY <1>4, <2>2, HistoryAssumption, LoadAgrees
  <2> QED
    BY <2>4, <2>5, WaitingAgrees
<1> QED
  BY <1>5, <1>6

\* Rows that are dropped leave nothing behind.
LEMMA RowsDroppedKeeps ==
  ASSUME PagerInv(pager, polls), NEW i \in DOMAIN polls, NEW empty \in BOOLEAN, NEW active \in BOOLEAN,
         RowsArrive(i, empty, active), ~ polls[i].current
  PROVE  PagerInv(pager', polls')
<1>0. /\ pager \in PagerRow /\ polls \in Seq(PollCall) /\ Lined(polls)
  BY DEF PagerInv
<1>1. ~ polls[i].foreground
  BY <1>0 DEF Lined, IsRows
<1>2. pager' = pager /\ polls' = RemoveAt(polls, i)
  BY <1>1 DEF RowsArrive, LetGo
<1>3. polls' \in Seq(PollCall)
  BY <1>0, <1>2, RemovedIs
<1> QED
  BY <1>0, <1>2, <1>3, RemovedAgrees, AsideKeeps

\* The rows of page 1 feed the panel: no earlier answer for it counts any more.
LEMMA PanelFed ==
  ASSUME NEW s \in Seq(PollCall), Lined(s), NEW i \in DOMAIN s, IsRows(s[i])
  PROVE  LET t == RemoveAt(Behind(ShowsPanel(s, i), "summary"), i)
         IN  /\ t \in Seq(PollCall) /\ Lined(t) /\ \A j \in DOMAIN t : ~ IsRows(t[j])
             /\ s[i].foreground => \A j \in DOMAIN t : ~ t[j].foreground
             /\ (\A k \in DOMAIN s : ~ s[k].foreground) => \A j \in DOMAIN t : ~ t[j].foreground
<1>1. PICK u \in Seq(PollCall) :
        /\ u = ShowsPanel(s, i) /\ DOMAIN u = DOMAIN s
        /\ \A j \in DOMAIN s :
              /\ u[j].kind = s[j].kind /\ u[j].page = s[j].page
              /\ u[j].current = s[j].current /\ u[j].foreground = s[j].foreground
              /\ u[j].older => s[j].older \/ (j < i /\ (IsRows(s[j]) \/ IsSummary(s[j])))
  BY ShowsPanelIs
<1>2. PICK b \in Seq(PollCall) :
        /\ b = Behind(u, "summary") /\ DOMAIN b = DOMAIN u
        /\ \A j \in DOMAIN u : /\ Lesser(b[j], u[j]) /\ b[j].foreground = u[j].foreground
                               /\ b[j].kind = "summary" => ~ b[j].current
                               /\ u[j].kind # "summary" => b[j] = u[j]
  BY BehindIs
<1>3. \A j \in DOMAIN s : /\ IsRows(b[j]) <=> IsRows(s[j])
                          /\ b[j].foreground = s[j].foreground
                          /\ ~ IsSummary(b[j])
  BY <1>1, <1>2 DEF IsRows, IsSummary, Lesser
<1>4. Lined(b)
  BY SMTT(30), <1>1, <1>2, <1>3 DEF Lined
<1>5. i \in DOMAIN b /\ IsRows(b[i])
  BY <1>1, <1>2, <1>3
<1>6. PICK t \in Seq(PollCall) : t = RemoveAt(b, i)
  BY <1>5, RemovedIs
<1>7. /\ Lined(t) /\ (\A j \in DOMAIN t : ~ IsRows(t[j]))
      /\ b[i].foreground => \A j \in DOMAIN t : ~ t[j].foreground
      /\ (\A k \in DOMAIN b : ~ b[k].foreground) => \A j \in DOMAIN t : ~ t[j].foreground
  BY <1>4, <1>5, <1>6, RemovedAgrees
<1> QED
  BY <1>1, <1>2, <1>3, <1>6, <1>7

LEMMA RowsShownKeeps ==
  ASSUME PagerInv(pager, polls), NEW i \in DOMAIN polls, NEW empty \in BOOLEAN, NEW active \in BOOLEAN,
         RowsArrive(i, empty, active), polls[i].current, ~ (empty /\ polls[i].page > 1)
  PROVE  PagerInv(pager', polls')
<1>0. /\ pager \in PagerRow /\ polls \in Seq(PollCall) /\ Lined(polls) /\ Paged(polls, pager.page, pager.astray)
      /\ polls[i] \in PollCall
  BY ElementOfSeq, LenProperties DEF PagerInv
<1>1. PICK c \in PollCall : c = polls[i]
  BY <1>0
<1>2. c.kind = "rows" /\ IsRows(c) /\ c.page \in Page
  BY <1>1 DEF RowsArrive, IsRows, PollCall
<1>3. ~ pager.astray => c.page = pager.page /\ (c.older => c.page # 1)
  BY <1>0, <1>1, <1>2 DEF Paged
<1>4. PICK panel \in BOOLEAN : panel = (pager.panel \/ c.page = 1)
  BY <1>0 DEF PagerRow
<1>5. PICK astray \in BOOLEAN : astray = (pager.astray /\ c.page # pager.page)
  OBVIOUS
<1>6. (pager.disorder \/ (c.page = 1 /\ c.older /\ ~ pager.astray)) = FALSE
  BY <1>0, <1>3 DEF PagerInv, PagerRow
<1>7. PICK r : r = [pager EXCEPT !.rows = c.page, !.active = active, !.panel = panel, !.astray = astray,
                                 !.disorder = FALSE]
  OBVIOUS
<1>8. pager' = LetGo(r, c)
  BY <1>0, <1>1, <1>4, <1>5, <1>6, <1>7 DEF RowsArrive, PagerRow
<1>9. /\ r \in PagerRow /\ r.page = pager.page /\ r.rows = c.page /\ r.loading = pager.loading
      /\ r.pending = pager.pending /\ r.disorder = FALSE /\ r.astray = astray
  BY ZenonT(60), <1>0, <1>2, <1>7 DEF PagerRow
<1>10. PICK s \in Seq(PollCall) :
         /\ s = polls' /\ Lined(s) /\ \A j \in DOMAIN s : ~ IsRows(s[j])
         /\ c.foreground => \A j \in DOMAIN s : ~ s[j].foreground
         /\ (\A k \in DOMAIN polls : ~ polls[k].foreground) => \A j \in DOMAIN s : ~ s[j].foreground
  <2>1. CASE c.page = 1
    <3>1. polls' = RemoveAt(Behind(ShowsPanel(polls, i), "summary"), i)
      BY <1>1, <2>1 DEF RowsArrive
    <3> QED
      BY <1>0, <1>1, <1>2, <3>1, PanelFed
  <2>2. CASE c.page # 1
    <3>1. polls' = RemoveAt(polls, i)
      BY <1>1, <2>2 DEF RowsArrive
    <3> QED
      BY <1>0, <1>1, <1>2, <3>1, RemovedIs, RemovedAgrees
  <2> QED
    BY <2>1, <2>2
<1>11. Paged(s, r.page, r.astray)
  BY <1>10 DEF Paged
<1>12. ~ r.astray => r.rows = r.page
  BY <1>3, <1>5, <1>9
<1>13. r.loading = r.pending /\ (~ r.pending => \A j \in DOMAIN s : ~ s[j].foreground)
  BY <1>9, <1>10 DEF PagerInv
<1>14. PagerInv(LetGo(r, c), s)
  BY <1>9, <1>10, <1>11, <1>12, <1>13, LetGoKeeps
<1> QED
  BY <1>8, <1>10, <1>14

\* A summary that counts is newer than the panel on show; the rows it overtakes do
\* not feed the panel.
LEMMA SummaryArrivesKeeps ==
  ASSUME PagerInv(pager, polls), NEW i \in DOMAIN polls, NEW active \in BOOLEAN, SummaryArrives(i, active)
  PROVE  PagerInv(pager', polls')
<1>0. /\ pager \in PagerRow /\ polls \in Seq(PollCall) /\ Lined(polls) /\ Paged(polls, pager.page, pager.astray)
      /\ polls[i].kind = "summary"
  BY DEF PagerInv, SummaryArrives
<1>1. CASE ~ polls[i].current
  <2>1. pager' = pager /\ polls' = RemoveAt(polls, i)
    BY <1>1 DEF SummaryArrives
  <2>2. polls' \in Seq(PollCall)
    BY <1>0, <2>1, RemovedIs
  <2> QED
    BY <1>0, <2>1, <2>2, RemovedAgrees, AsideKeeps
<1>2. CASE polls[i].current
  <2>1. IsSummary(polls[i]) /\ ~ polls[i].older
    BY <1>0, <1>2 DEF Lined, IsSummary
  <2>2. (pager.disorder \/ polls[i].older) = FALSE
    BY <1>0, <2>1 DEF PagerInv, PagerRow
  <2>3. pager' = [pager EXCEPT !.panel = TRUE, !.active = active, !.disorder = FALSE]
    BY <1>0, <1>2, <2>2 DEF SummaryArrives, PagerRow
  <2>4. /\ pager' \in PagerRow /\ pager'.page = pager.page /\ pager'.astray = pager.astray
        /\ pager'.pending = pager.pending /\ pager'.loading = pager.loading
        /\ pager'.rows = pager.rows /\ pager'.disorder = FALSE
    BY <1>0, <2>3 DEF PagerRow
  <2>5. PICK u \in Seq(PollCall) :
          /\ u = ShowsPanel(polls, i) /\ DOMAIN u = DOMAIN polls
          /\ \A j \in DOMAIN polls :
                /\ u[j].kind = polls[j].kind /\ u[j].page = polls[j].page
                /\ u[j].current = polls[j].current /\ u[j].foreground = polls[j].foreground
                /\ u[j].older => polls[j].older \/ (j < i /\ (IsRows(polls[j]) \/ IsSummary(polls[j])))
    BY <1>0, ShowsPanelIs
  <2>6. \A j \in DOMAIN polls : /\ IsRows(u[j]) <=> IsRows(polls[j])
                                /\ IsSummary(u[j]) <=> IsSummary(polls[j])
    BY <2>5 DEF IsRows, IsSummary
  <2>7. \A j \in DOMAIN polls : j < i => j # i
    BY <1>0, LenProperties
  <2>8. \A j \in DOMAIN polls : IsSummary(polls[j]) => ~ u[j].older
    BY <1>0, <2>1, <2>5, <2>7 DEF Lined
  <2>9. Lined(u)
    BY <1>0, <2>5, <2>6, <2>8 DEF Lined
  <2>10. ASSUME ~ pager.astray, NEW j \in DOMAIN polls, IsRows(polls[j])
         PROVE  u[j].page = pager.page /\ (u[j].older => pager.page # 1)
    <3>1. polls[j].page = pager.page /\ (polls[j].older => pager.page # 1)
      BY <1>0, <2>10 DEF Paged
    <3>2. j < i => pager.page # 1
      BY <1>0, <2>1, <2>10 DEF Paged
    <3> QED
      BY <2>5, <3>1, <3>2
  <2>11. Paged(u, pager.page, pager.astray)
    BY <1>0, <2>5, <2>6, <2>10 DEF Paged
  <2>12. PICK s \in Seq(PollCall) : s = RemoveAt(u, i)
    BY <2>5, RemovedIs
  <2>13. /\ Lined(s) /\ Paged(s, pager.page, pager.astray)
         /\ (\A k \in DOMAIN u : ~ u[k].foreground) => \A j \in DOMAIN s : ~ s[j].foreground
    BY <2>5, <2>9, <2>11, <2>12, RemovedAgrees
  <2>14. polls' = s
    BY <1>2, <2>5, <2>12 DEF SummaryArrives
  <2>15. ~ pager.pending => \A j \in DOMAIN s : ~ s[j].foreground
    BY <2>5, <2>13 DEF PagerInv
  <2> QED
    BY <2>4, <2>13, <2>14, <2>15 DEF PagerInv
<1> QED
  BY <1>1, <1>2

LEMMA HistoryStepKeeps ==
  ASSUME PagerInv(pager, polls), HistoryNext \/ HistoryAnswered
  PROVE  PagerInv(pager', polls')
<1>1. CASE HistoryNext
  BY <1>1, TurnPageKeeps, PollKeeps, AsidesKeep DEF HistoryNext
<1>2. CASE HistoryAnswered
  <2>1. PICK i \in DOMAIN polls : PollAnswered(i)
    BY <1>2 DEF HistoryAnswered
  <2>2. ASSUME NEW e \in BOOLEAN, NEW b \in BOOLEAN, RowsArrive(i, e, b)
        PROVE  PagerInv(pager', polls')
    <3>1. CASE ~ polls[i].current
      BY <2>2, <3>1, RowsDroppedKeeps
    <3>2. CASE polls[i].current /\ e /\ polls[i].page > 1
      <4>1. e = TRUE
        BY <3>2
      <4>2. RowsArrive(i, TRUE, b)
        BY <2>2, <4>1
      <4> QED
        BY <3>2, <4>2, RowsTurnKeeps
    <3>3. CASE polls[i].current /\ ~ (e /\ polls[i].page > 1)
      BY <2>2, <3>3, RowsShownKeeps
    <3> QED
      BY <3>1, <3>2, <3>3
  <2>3. ASSUME NEW b \in BOOLEAN, Acted(i, b) PROVE PagerInv(pager', polls')
    <3>1. CASE b = TRUE
      <4>1. Acted(i, TRUE)
        BY <2>3, <3>1
      <4> QED
        BY <4>1, ActedKeeps
    <3>2. CASE b = FALSE
      <4>1. Acted(i, FALSE)
        BY <2>3, <3>2
      <4> QED
        BY <4>1, AsidesKeep
    <3> QED
      BY <3>1, <3>2
  <2>4. ASSUME NEW b \in BOOLEAN, SummaryArrives(i, b) \/ InForceArrives(i, b) PROVE PagerInv(pager', polls')
    BY <2>4, SummaryArrivesKeeps, AsidesKeep
  <2> QED
    BY <2>1, <2>2, <2>3, <2>4, RowsFailKeeps, AsidesKeep DEF PollAnswered
<1> QED
  BY <1>1, <1>2

-----------------------------------------------------------------------------
(* The publish dialog and the run a link names *)

RunRow == [id : Run, status : {"RUNNING", "SUCCEEDED"}, gates : SUBSET Gate, over : {None} \cup SUBSET Gate]
DialogRow ==
  [rows : SUBSET RunRow, focus : Run \cup {None}, linked : RunRow \cup {None}, lost : BOOLEAN,
   target : RunRow \cup {None}, acks : SUBSET Gate, reason : BOOLEAN, publishing : BOOLEAN,
   signed : SUBSET (Run \X Gate)]
DialogCall ==
  [kind : {"linked"}, of : Run, current : BOOLEAN]
    \cup [kind : {"publish"}, of : Run, acks : SUBSET Gate, signed : SUBSET Gate,
          answer : {None, "published", "refused"}]

\* The boxes are ticked for the run of the dialog.
TicksAgree(l) == l.target # None => l.acks = {g \in Gate : <<l.target.id, g>> \in l.signed}

\* What is sent is signed; what is published, over no more than was sent.
PublishesAgree(w, s) ==
  \A c \in w : c.kind = "publish" =>
    /\ c.acks \subseteq c.signed
    /\ c.answer = "published" => s[c.of].over # None /\ s[c.of].over \subseteq c.acks

\* The newest request for a linked run is the only one, and is made for the run that is missing.
IsLink(c) == c.kind = "linked" /\ c.current
LinkAgrees(l, w) ==
  /\ \A c, d \in w : IsLink(c) /\ IsLink(d) => c.of = d.of
  /\ Missing(l) /\ ~ l.lost => \E c \in w : IsLink(c) /\ c.of = l.focus

DialogInv(l, w, s) ==
  /\ l \in DialogRow /\ w \subseteq DialogCall /\ s \in [Run -> RunRow] /\ \A r \in Run : s[r].id = r
  /\ TicksAgree(l) /\ PublishesAgree(w, s) /\ LinkAgrees(l, w)

\* Whether a run is missing is told by what the effect depends on.
LEMMA MissingIs ==
  ASSUME NEW k \in DialogRow, NEW l \in DialogRow, LinkDeps(k) = LinkDeps(l), Missing(l)
  PROVE  Missing(k) /\ k.focus = l.focus
<1>1. /\ k.focus = l.focus /\ OnPage(k) = OnPage(l)
      /\ (IF k.linked = None THEN None ELSE k.linked.id) = (IF l.linked = None THEN None ELSE l.linked.id)
  BY DEF LinkDeps
<1>2. l.focus # None /\ ~ OnPage(l) /\ ~ IsLinked(l)
  BY DEF Missing
<1>3. ~ IsLinked(k)
  BY <1>1, <1>2 DEF IsLinked
<1> QED
  BY <1>1, <1>2, <1>3 DEF Missing

LEMMA RendersIs ==
  ASSUME lists \in DialogRow, NEW l \in DialogRow, NEW w \in SUBSET DialogCall, Renders(l, w),
         \A c, d \in w : IsLink(c) /\ IsLink(d) => c.of = d.of,
         Missing(l) /\ ~ l.lost /\ LinkDeps(l) = LinkDeps(lists) => \E c \in w : IsLink(c) /\ c.of = l.focus
  PROVE  /\ lists' \in DialogRow /\ wire' \subseteq DialogCall /\ LinkAgrees(lists', wire')
         /\ lists'.target = l.target /\ lists'.acks = l.acks /\ lists'.signed = l.signed
         /\ \A c \in wire' : c.kind = "publish" => c \in w
<1>1. CASE Missing(l) /\ LinkDeps(l) # LinkDeps(lists)
  <2> DEFINE u == {IF c.kind = "linked" THEN [c EXCEPT !.current = FALSE] ELSE c : c \in w}
             r == [kind |-> "linked", of |-> l.focus, current |-> TRUE]
  <2>1. lists' = [l EXCEPT !.lost = FALSE] /\ wire' = u \cup {r}
    BY <1>1 DEF Renders
  <2>2. ASSUME NEW c \in DialogCall, c.kind = "linked"
        PROVE  /\ [c EXCEPT !.current = FALSE] \in DialogCall /\ [c EXCEPT !.current = FALSE].current = FALSE
               /\ [c EXCEPT !.current = FALSE].kind = "linked"
    BY <2>2 DEF DialogCall
  <2>3. u \subseteq DialogCall /\ (\A c \in u : ~ IsLink(c)) /\ (\A c \in u : c.kind = "publish" => c \in w)
    BY <2>2 DEF IsLink
  <2>4. l.focus \in Run
    BY <1>1 DEF Missing, DialogRow
  <2>5. r \in DialogCall /\ r.kind = "linked" /\ r.of = l.focus /\ r.current
    BY <2>4 DEF DialogCall
  <2> HIDE DEF u, r
  <2>6. /\ lists' \in DialogRow /\ lists'.focus = l.focus
        /\ lists'.target = l.target /\ lists'.acks = l.acks /\ lists'.signed = l.signed
    BY <2>1 DEF DialogRow
  <2>7. LinkAgrees(lists', wire')
    BY <2>1, <2>3, <2>5, <2>6 DEF LinkAgrees, IsLink
  <2> QED
    BY <2>1, <2>3, <2>5, <2>6, <2>7
<1>2. CASE ~ (Missing(l) /\ LinkDeps(l) # LinkDeps(lists))
  BY <1>2 DEF Renders, LinkAgrees
<1> QED
  BY <1>1, <1>2

\* What the effect did not follow from has not changed.
LEMMA StillAsked ==
  ASSUME DialogInv(lists, wire, server), NEW l \in DialogRow, l.lost = lists.lost,
         Missing(l), ~ l.lost, LinkDeps(l) = LinkDeps(lists)
  PROVE  \E c \in wire : IsLink(c) /\ c.of = l.focus
<1>1. lists \in DialogRow
  BY DEF DialogInv
<1>2. Missing(lists) /\ lists.focus = l.focus
  BY <1>1, MissingIs
<1> QED
  BY <1>2 DEF DialogInv, LinkAgrees

LEMMA LinkFollowed ==
  ASSUME DialogInv(lists, wire, server), NEW r \in Run, FollowRunLink(r) \/ ListRefreshed(r)
  PROVE  DialogInv(lists', wire', server')
<1>0. /\ lists \in DialogRow /\ wire \in SUBSET DialogCall /\ server \in [Run -> RunRow] /\ server' = server
      /\ \A c, d \in wire : IsLink(c) /\ IsLink(d) => c.of = d.of
  BY DEF DialogInv, LinkAgrees, FollowRunLink, ListRefreshed, beside
<1>1. PICK l \in DialogRow : /\ Renders(l, wire) /\ l.lost = lists.lost /\ l.target = lists.target
                             /\ l.acks = lists.acks /\ l.signed = lists.signed
  <2>1. CASE FollowRunLink(r)
    <3>1. PICK l : l = [lists EXCEPT !.focus = r]
      OBVIOUS
    <3>2. /\ l \in DialogRow /\ l.lost = lists.lost /\ l.target = lists.target
          /\ l.acks = lists.acks /\ l.signed = lists.signed
      BY <1>0, <3>1 DEF DialogRow
    <3>3. Renders(l, wire)
      BY <2>1, <3>1 DEF FollowRunLink
    <3> QED
      BY <3>2, <3>3
  <2>2. CASE ListRefreshed(r)
    <3>0. PICK rows \in SUBSET RunRow : rows = {server[r]}
      BY <1>0
    <3>1. PICK l : l = [lists EXCEPT !.rows = rows]
      OBVIOUS
    <3>2. /\ l \in DialogRow /\ l.lost = lists.lost /\ l.target = lists.target
          /\ l.acks = lists.acks /\ l.signed = lists.signed
      BY <1>0, <3>1 DEF DialogRow
    <3>3. Renders(l, wire)
      BY <2>2, <3>0, <3>1 DEF ListRefreshed
    <3> QED
      BY <3>2, <3>3
  <2> QED
    BY <2>1, <2>2
<1>2. Missing(l) /\ ~ l.lost /\ LinkDeps(l) = LinkDeps(lists) => \E c \in wire : IsLink(c) /\ c.of = l.focus
  BY <1>1, StillAsked
<1>3. /\ lists' \in DialogRow /\ wire' \subseteq DialogCall /\ LinkAgrees(lists', wire')
      /\ lists'.target = l.target /\ lists'.acks = l.acks /\ lists'.signed = l.signed
      /\ \A c \in wire' : c.kind = "publish" => c \in wire
  BY <1>0, <1>1, <1>2, RendersIs
<1>4. TicksAgree(lists') /\ PublishesAgree(wire', server')
  BY <1>0, <1>1, <1>3 DEF DialogInv, TicksAgree, PublishesAgree
<1> QED
  BY <1>0, <1>3, <1>4 DEF DialogInv

LEMMA LinkArrivedFollows ==
  ASSUME DialogInv(lists, wire, server), NEW c \in wire, LinkedArrives(c) \/ LinkedFails(c)
  PROVE  DialogInv(lists', wire', server')
<1>0. /\ lists \in DialogRow /\ wire \in SUBSET DialogCall /\ server \in [Run -> RunRow] /\ server' = server
      /\ (\A d, e \in wire : IsLink(d) /\ IsLink(e) => d.of = e.of) /\ c.kind = "linked"
      /\ \A r \in Run : server[r].id = r
  BY DEF DialogInv, LinkAgrees, LinkedArrives, LinkedFails, beside
<1> PICK w : w = wire \ {c}
  OBVIOUS
<1>1. /\ w \in SUBSET DialogCall /\ (\A d, e \in w : IsLink(d) /\ IsLink(e) => d.of = e.of)
      /\ \A d \in wire : d # c => d \in w
  BY <1>0
<1>2. CASE ~ c.current
  <2>1. lists' = lists /\ wire' = w
    BY <1>2 DEF LinkedArrives, LinkedFails
  <2>2. LinkAgrees(lists, w)
    BY <1>0, <1>1, <1>2 DEF DialogInv, LinkAgrees, IsLink
  <2> QED
    BY <1>0, <1>1, <2>1, <2>2 DEF DialogInv, PublishesAgree
<1>3. CASE c.current
  <2>0. IsLink(c) /\ c.of \in Run
    BY <1>0, <1>3 DEF IsLink, DialogCall
  <2>1. PICK l \in DialogRow :
          /\ Renders(l, w) /\ l.target = lists.target /\ l.acks = lists.acks /\ l.signed = lists.signed
          /\ l.lost \/ (l.lost = lists.lost /\ l.linked # None /\ l.linked.id = c.of)
    <3>1. CASE LinkedArrives(c)
      <4>1. PICK row \in RunRow : row = server[c.of] /\ row.id = c.of /\ row # None
        BY <1>0, <2>0, DialogAssumption DEF RunRow
      <4>2. PICK l : l = [lists EXCEPT !.linked = row]
        OBVIOUS
      <4>3. /\ l \in DialogRow /\ l.target = lists.target /\ l.acks = lists.acks /\ l.signed = lists.signed
            /\ l.lost = lists.lost /\ l.linked = row
        BY <1>0, <4>1, <4>2 DEF DialogRow
      <4>4. Renders(l, w)
        BY <1>3, <3>1, <4>1, <4>2 DEF LinkedArrives
      <4> QED
        BY <4>1, <4>3, <4>4
    <3>2. CASE LinkedFails(c)
      <4>2. PICK l : l = [lists EXCEPT !.linked = None, !.lost = TRUE]
        OBVIOUS
      <4>3. /\ l \in DialogRow /\ l.target = lists.target /\ l.acks = lists.acks /\ l.signed = lists.signed
            /\ l.lost = TRUE
        BY <1>0, <4>2 DEF DialogRow
      <4>4. Renders(l, w)
        BY <1>3, <3>2, <4>2 DEF LinkedFails
      <4> QED
        BY <4>3, <4>4
    <3> QED
      BY <3>1, <3>2
  <2>2. ~ (Missing(l) /\ ~ l.lost /\ LinkDeps(l) = LinkDeps(lists))
    <3> SUFFICES ASSUME Missing(l), ~ l.lost, LinkDeps(l) = LinkDeps(lists)
                 PROVE  FALSE
      OBVIOUS
    <3>1. /\ l.lost = lists.lost /\ l.linked # None /\ l.linked.id = c.of
      BY <2>1
    <3>2. PICK d \in wire : IsLink(d) /\ d.of = l.focus
      BY <3>1, StillAsked
    <3>3. c.of = l.focus
      BY <1>0, <2>0, <3>2
    <3> QED
      BY <3>1, <3>3 DEF Missing, IsLinked
  <2>3. /\ lists' \in DialogRow /\ wire' \subseteq DialogCall /\ LinkAgrees(lists', wire')
        /\ lists'.target = l.target /\ lists'.acks = l.acks /\ lists'.signed = l.signed
        /\ \A d \in wire' : d.kind = "publish" => d \in w
    BY <1>0, <1>1, <2>1, <2>2, RendersIs
  <2>4. TicksAgree(lists') /\ PublishesAgree(wire', server')
    BY <1>0, <1>1, <2>1, <2>3 DEF DialogInv, TicksAgree, PublishesAgree
  <2> QED
    BY <1>0, <2>3, <2>4 DEF DialogInv
<1> QED
  BY <1>2, <1>3

\* What the dialog does leaves the list and the link alone.
LEMMA LinkUntouched ==
  ASSUME NEW l \in DialogRow, NEW k \in DialogRow, NEW w, NEW v, LinkAgrees(l, w),
         k.rows = l.rows, k.focus = l.focus, k.linked = l.linked, k.lost = l.lost,
         \A c : IsLink(c) => (c \in v <=> c \in w)
  PROVE  LinkAgrees(k, v)
<1>1. Missing(k) <=> Missing(l)
  BY DEF Missing, OnPage, IsLinked
<1> QED
  BY <1>1 DEF LinkAgrees

LEMMA DialogOpens ==
  ASSUME DialogInv(lists, wire, server), NEW row, OpenDialog(row)
  PROVE  DialogInv(lists', wire', server')
<1>0. lists \in DialogRow /\ wire' = wire /\ server' = server /\ lists.signed \subseteq Run \X Gate
  BY DEF DialogInv, OpenDialog, beside, DialogRow
<1>1. row \in RunRow
  BY <1>0 DEF OpenDialog, Offers, displayRuns, IsLinked, DialogRow
<1> PICK signed : signed = {s \in lists.signed : s[1] # row.id}
  OBVIOUS
<1>2. signed \subseteq Run \X Gate /\ \A g \in Gate : <<row.id, g>> \notin signed
  BY <1>0
<1>3. lists' = [lists EXCEPT !.target = row, !.acks = {}, !.reason = FALSE, !.signed = signed]
  BY DEF OpenDialog
<1>4. /\ lists' \in DialogRow /\ lists'.target = row /\ lists'.acks = {} /\ lists'.signed = signed
      /\ lists'.rows = lists.rows /\ lists'.focus = lists.focus
      /\ lists'.linked = lists.linked /\ lists'.lost = lists.lost
  BY <1>0, <1>1, <1>2, <1>3 DEF DialogRow
<1>5. TicksAgree(lists')
  BY <1>2, <1>4 DEF TicksAgree
<1>6. LinkAgrees(lists', wire')
  BY <1>0, <1>4, LinkUntouched DEF DialogInv
<1> QED
  BY <1>0, <1>4, <1>5, <1>6 DEF DialogInv

LEMMA DialogTicked ==
  ASSUME DialogInv(lists, wire, server), NEW g \in Gate, Acknowledge(g)
  PROVE  DialogInv(lists', wire', server')
<1>0. /\ lists \in DialogRow /\ wire' = wire /\ server' = server /\ lists.signed \subseteq Run \X Gate
      /\ lists.acks \subseteq Gate /\ lists.acks = {h \in Gate : <<lists.target.id, h>> \in lists.signed}
  BY DEF DialogInv, Acknowledge, beside, DialogRow, TicksAgree
<1>1. PICK row \in RunRow : row = lists.target
  BY <1>0 DEF Acknowledge, DialogRow
<1> PICK signed, acks : signed = SymDiff(lists.signed, {<<row.id, g>>}) /\ acks = SymDiff(lists.acks, {g})
  OBVIOUS
<1>2. row.id \in Run
  BY <1>1 DEF RunRow
<1>3. signed \subseteq Run \X Gate /\ acks \subseteq Gate
  BY <1>0, <1>2 DEF SymDiff
<1>4. acks = {h \in Gate : <<row.id, h>> \in signed}
  BY <1>0, <1>1, <1>3 DEF SymDiff
<1>5. lists' = [lists EXCEPT !.acks = acks, !.signed = signed]
  BY <1>1 DEF Acknowledge
<1>6. /\ lists' \in DialogRow /\ lists'.target = row /\ lists'.acks = acks /\ lists'.signed = signed
      /\ lists'.rows = lists.rows /\ lists'.focus = lists.focus
      /\ lists'.linked = lists.linked /\ lists'.lost = lists.lost
  BY <1>0, <1>1, <1>3, <1>5 DEF DialogRow
<1>7. TicksAgree(lists')
  BY <1>4, <1>6 DEF TicksAgree
<1>8. LinkAgrees(lists', wire')
  BY <1>0, <1>6, LinkUntouched DEF DialogInv
<1> QED
  BY <1>0, <1>6, <1>7, <1>8 DEF DialogInv

LEMMA DialogTyped ==
  ASSUME DialogInv(lists, wire, server), GiveReason \/ Dismiss
  PROVE  DialogInv(lists', wire', server')
<1>0. lists \in DialogRow /\ wire' = wire /\ server' = server
  BY DEF DialogInv, GiveReason, Dismiss, beside
<1>1. /\ lists' \in DialogRow /\ lists'.target \in {None, lists.target}
      /\ lists'.acks = lists.acks /\ lists'.signed = lists.signed
      /\ lists'.rows = lists.rows /\ lists'.focus = lists.focus
      /\ lists'.linked = lists.linked /\ lists'.lost = lists.lost
  BY <1>0 DEF DialogRow, GiveReason, Dismiss
<1>2. TicksAgree(lists')
  BY <1>1 DEF DialogInv, TicksAgree
<1>3. LinkAgrees(lists', wire')
  BY <1>0, <1>1, LinkUntouched DEF DialogInv
<1> QED
  BY <1>0, <1>1, <1>2, <1>3 DEF DialogInv

LEMMA DialogSends ==
  ASSUME DialogInv(lists, wire, server), Publish
  PROVE  DialogInv(lists', wire', server')
<1>0. lists \in DialogRow /\ server' = server /\ lists.target # None
  BY DEF DialogInv, Publish, MayPublish, beside
<1>1. PICK row \in RunRow : row = lists.target /\ row.id \in Run /\ row.gates \subseteq Gate
  BY <1>0 DEF DialogRow, RunRow
<1>2. row.gates \subseteq lists.acks /\ lists.acks = {g \in Gate : <<row.id, g>> \in lists.signed}
  BY <1>0, <1>1 DEF Publish, MayPublish, DialogInv, TicksAgree
<1> DEFINE r == [kind |-> "publish", of |-> row.id, acks |-> row.gates,
                 signed |-> {g \in Gate : <<row.id, g>> \in lists.signed}, answer |-> None]
<1>3. /\ r \in DialogCall /\ r.acks \subseteq r.signed /\ r.answer # "published" /\ r.kind = "publish"
  BY <1>1, <1>2, DialogAssumption DEF DialogCall
<1>4. lists' = [lists EXCEPT !.publishing = TRUE] /\ wire' = wire \cup {r}
  BY <1>1 DEF Publish
<1> HIDE DEF r
<1>5. /\ lists' \in DialogRow /\ lists'.target = lists.target
      /\ lists'.acks = lists.acks /\ lists'.signed = lists.signed
      /\ lists'.rows = lists.rows /\ lists'.focus = lists.focus
      /\ lists'.linked = lists.linked /\ lists'.lost = lists.lost
  BY <1>0, <1>4 DEF DialogRow
<1>6. TicksAgree(lists') /\ PublishesAgree(wire', server')
  BY <1>0, <1>3, <1>4, <1>5 DEF DialogInv, TicksAgree, PublishesAgree
<1>7. LinkAgrees(lists', wire')
  <2>1. \A c : IsLink(c) => (c \in wire' <=> c \in wire)
    BY <1>3, <1>4 DEF IsLink
  <2>2. LinkAgrees(lists, wire)
    BY DEF DialogInv
  <2> QED
    BY <1>0, <1>5, <2>1, <2>2, LinkUntouched
<1> QED
  BY <1>0, <1>3, <1>4, <1>5, <1>6, <1>7 DEF DialogInv

LEMMA DialogServed ==
  ASSUME DialogInv(lists, wire, server), NEW c \in wire, PublishServed(c)
  PROVE  DialogInv(lists', wire', server')
<1>0. lists' = lists /\ lists \in DialogRow /\ c \in DialogCall /\ c.kind = "publish"
  BY DEF DialogInv, PublishServed
<1>1. /\ c.of \in Run /\ c.acks \subseteq Gate /\ c.acks \subseteq c.signed
  BY <1>0 DEF DialogInv, PublishesAgree, DialogCall
<1>2. PICK run \in RunRow : run = server[c.of] /\ run.id = c.of /\ run.gates \subseteq Gate /\ run.gates # None
  BY <1>1, DialogAssumption DEF DialogInv, RunRow
<1>3. PICK works \in BOOLEAN :
        works = (run.status = "SUCCEEDED" /\ run.over = None /\ run.gates \subseteq c.acks)
  OBVIOUS
<1>4. PICK answer \in {"published", "refused"} : answer = IF works THEN "published" ELSE "refused"
  OBVIOUS
<1> DEFINE r == [c EXCEPT !.answer = answer]
<1>5. /\ server' = IF works THEN [server EXCEPT ![c.of].over = run.gates] ELSE server
      /\ wire' = (wire \ {c}) \cup {r}
  BY <1>2, <1>3, <1>4 DEF PublishServed
<1>6. /\ r \in DialogCall /\ r.kind = "publish" /\ r.of = c.of /\ r.acks = c.acks
      /\ r.signed = c.signed /\ r.answer = answer
  BY <1>0 DEF DialogCall
<1> HIDE DEF r
<1>7. /\ server' \in [Run -> RunRow] /\ \A q \in Run : server'[q].id = q
      /\ \A q \in Run : server[q].over # None => server'[q] = server[q]
      /\ works => server'[c.of].over = run.gates
  <2>1. CASE works
    <3>0. server \in [Run -> RunRow] /\ \A q \in Run : server[q].id = q
      BY DEF DialogInv
    <3>1. PICK row : row = [run EXCEPT !.over = run.gates]
      OBVIOUS
    <3>2. row \in RunRow /\ row.id = c.of /\ row.over = run.gates
      BY <1>2, <3>1 DEF RunRow
    <3>3. server' = [server EXCEPT ![c.of] = row]
      BY <1>2, <1>5, <2>1, <3>0, <3>1
    <3>4. run.over = None
      BY <1>3, <2>1
    <3> QED
      BY <1>1, <1>2, <3>0, <3>2, <3>3, <3>4
  <2>2. CASE ~ works
    BY <1>5, <2>2 DEF DialogInv
  <2> QED
    BY <2>1, <2>2
<1>8. PublishesAgree(wire', server')
  <2>1. ASSUME NEW d \in wire, d.kind = "publish"
        PROVE  /\ d.acks \subseteq d.signed
               /\ d.answer = "published" => server'[d.of].over # None /\ server'[d.of].over \subseteq d.acks
    <3>1. d.of \in Run
      BY <2>1 DEF DialogInv, DialogCall
    <3> QED
      BY <1>7, <2>1, <3>1 DEF DialogInv, PublishesAgree
  <2>2. r.answer = "published" => server'[r.of].over # None /\ server'[r.of].over \subseteq r.acks
    BY <1>2, <1>3, <1>4, <1>6, <1>7
  <2> QED
    BY <1>1, <1>5, <1>6, <2>1, <2>2 DEF PublishesAgree
<1>9. LinkAgrees(lists', wire')
  <2>1. \A d : IsLink(d) => (d \in wire' <=> d \in wire)
    BY <1>0, <1>5, <1>6 DEF IsLink
  <2>2. LinkAgrees(lists, wire)
    BY DEF DialogInv
  <2> QED
    BY <1>0, <2>1, <2>2, LinkUntouched
<1> QED
  BY <1>0, <1>5, <1>6, <1>7, <1>8, <1>9 DEF DialogInv

LEMMA DialogResumes ==
  ASSUME DialogInv(lists, wire, server), NEW c \in wire, PublishAnswered(c) \/ PublishLost(c)
  PROVE  DialogInv(lists', wire', server')
<1>0. /\ lists \in DialogRow /\ server' = server /\ wire' = wire \ {c} /\ c.kind = "publish"
  BY DEF DialogInv, PublishAnswered, PublishLost, beside
<1>1. PICK target \in RunRow \cup {None} :
        /\ target \in {None, lists.target}
        /\ lists' = [lists EXCEPT !.publishing = FALSE, !.target = target]
  <2>1. CASE PublishAnswered(c)
    BY <1>0, <2>1 DEF PublishAnswered, DialogRow
  <2>2. CASE PublishLost(c)
    <3>1. lists' = [lists EXCEPT !.publishing = FALSE]
      BY <2>2 DEF PublishLost
    <3>2. lists' = [lists EXCEPT !.publishing = FALSE, !.target = lists.target] /\ lists.target \in RunRow \cup {None}
      BY <1>0, <3>1 DEF DialogRow
    <3> QED
      BY <3>2
  <2> QED
    BY <2>1, <2>2
<1>2. /\ lists' \in DialogRow /\ lists'.target \in {None, lists.target}
      /\ lists'.acks = lists.acks /\ lists'.signed = lists.signed
      /\ lists'.rows = lists.rows /\ lists'.focus = lists.focus
      /\ lists'.linked = lists.linked /\ lists'.lost = lists.lost
  BY <1>0, <1>1 DEF DialogRow
<1>3. TicksAgree(lists') /\ PublishesAgree(wire', server')
  BY <1>0, <1>2 DEF DialogInv, TicksAgree, PublishesAgree
<1>4. LinkAgrees(lists', wire')
  <2>1. \A d : IsLink(d) => (d \in wire' <=> d \in wire)
    BY <1>0 DEF IsLink
  <2>2. LinkAgrees(lists, wire)
    BY DEF DialogInv
  <2> QED
    BY <1>0, <1>2, <2>1, <2>2, LinkUntouched
<1> QED
  BY <1>0, <1>2, <1>3, <1>4 DEF DialogInv

\* A run that has been published stays as it was published.
LEMMA RunsMove ==
  ASSUME DialogInv(lists, wire, server), NEW r \in Run,
         (\E gates \in SUBSET {"partial"} : RunEnds(r, gates)) \/ SourceDoubted(r)
  PROVE  DialogInv(lists', wire', server')
<1>0. lists' = lists /\ wire' = wire /\ server \in [Run -> RunRow] /\ \A q \in Run : server[q].id = q
  BY DEF DialogInv, RunEnds, SourceDoubted
<1>1. PICK run \in RunRow : run = server[r]
  BY <1>0
<1>2. PICK row \in RunRow : server' = [server EXCEPT ![r] = row] /\ row.id = r /\ row.over = run.over
  <2>1. ASSUME NEW gates \in SUBSET {"partial"}, RunEnds(r, gates)
        PROVE  \E row \in RunRow : server' = [server EXCEPT ![r] = row] /\ row.id = r /\ row.over = run.over
    <3>1. PICK row : row = [run EXCEPT !.status = "SUCCEEDED", !.gates = gates]
      OBVIOUS
    <3>2. row \in RunRow /\ row.id = run.id /\ row.over = run.over
      BY <1>1, <3>1 DEF RunRow, Gate
    <3>3. server' = [server EXCEPT ![r] = row]
      BY <1>0, <1>1, <2>1, <3>1 DEF RunEnds
    <3> QED
      BY <1>0, <1>1, <3>2, <3>3
  <2>2. CASE SourceDoubted(r)
    <3>1. PICK row : row = [run EXCEPT !.gates = run.gates \cup {"provenance"}]
      OBVIOUS
    <3>2. row \in RunRow /\ row.id = run.id /\ row.over = run.over
      BY <1>1, <3>1 DEF RunRow, Gate
    <3>3. server' = [server EXCEPT ![r] = row]
      BY <1>0, <1>1, <2>2, <3>1 DEF SourceDoubted
    <3> QED
      BY <1>0, <1>1, <3>2, <3>3
  <2> QED
    BY <2>1, <2>2
<1>3. /\ server' \in [Run -> RunRow] /\ \A q \in Run : server'[q].id = q /\ server'[q].over = server[q].over
  BY <1>0, <1>1, <1>2
<1>4. PublishesAgree(wire', server')
  <2>1. ASSUME NEW d \in wire, d.kind = "publish"
        PROVE  d.of \in Run
    BY <2>1 DEF DialogInv, DialogCall
  <2> QED
    BY <1>0, <1>3, <2>1 DEF DialogInv, PublishesAgree
<1> QED
  BY <1>0, <1>3, <1>4 DEF DialogInv

\* The publish dialog and its link, whatever is clicked and answered.
LEMMA DialogStepKeeps ==
  ASSUME DialogInv(lists, wire, server), DialogNext \/ LinkAnswered \/ DialogAnswered
  PROVE  DialogInv(lists', wire', server')
<1>1. CASE DialogNext
  BY <1>1, LinkFollowed, RunsMove, DialogOpens, DialogTicked, DialogTyped, DialogSends DEF DialogNext
<1>2. CASE LinkAnswered
  BY <1>2, LinkArrivedFollows DEF LinkAnswered
<1>3. CASE DialogAnswered
  BY <1>3, DialogServed, DialogResumes DEF DialogAnswered
<1> QED
  BY <1>1, <1>2, <1>3

LEMMA DialogShows ==
  ASSUME DialogInv(lists, wire, server)
  PROVE  PublishesWhatWasSigned /\ LinkIsShown
<1>0. lists \in DialogRow /\ LinkAgrees(lists, wire) /\ PublishesAgree(wire, server)
  BY DEF DialogInv
<1>1. PublishesWhatWasSigned
  BY <1>0 DEF PublishesWhatWasSigned, PublishesAgree
<1>2. LinkIsShown
  <2> SUFFICES ASSUME lists.focus # None, ~ lists.lost, \A c \in wire : c.kind = "linked" => ~ c.current
               PROVE  \E row \in displayRuns(lists) : row.id = lists.focus
    BY DEF LinkIsShown
  <2>1. ~ Missing(lists)
    BY <1>0 DEF LinkAgrees, IsLink
  <2>2. CASE OnPage(lists)
    BY <2>2 DEF OnPage, displayRuns
  <2>3. CASE IsLinked(lists) /\ ~ OnPage(lists)
    BY <2>3 DEF displayRuns, IsLinked
  <2> QED
    BY <2>1, <2>2, <2>3 DEF Missing
<1> QED
  BY <1>1, <1>2

-----------------------------------------------------------------------------
(* The repair centre *)

Plan == [sources : SUBSET Finding, made : Key, turned : BOOLEAN]
Repair == [key : Key, plan : Plan, reason : Nat]
DeskRow ==
  [findings : SUBSET Finding, page : Nat, loading : BOOLEAN, more : BOOLEAN, error : BOOLEAN,
   selected : SUBSET Finding, plan : Plan \cup {None}, key : Key \cup {None}, planning : BOOLEAN,
   reason : Nat, confirmed : BOOLEAN, today : BOOLEAN, turned : BOOLEAN, applying : BOOLEAN,
   failed : BOOLEAN, result : Repair \cup {None}, message : {"none", "changed"}, used : SUBSET Key]
Found == [ok : BOOLEAN, plan : SUBSET Finding]
DeskCall ==
  [kind : {"findings", "more", "again"}, of : Nat, answer : Found \cup {None}]
    \cup [kind : {"plan"}, of : SUBSET Finding, answer : Found \cup {None}]
    \cup [kind : {"apply"}, of : Repair, answer : {None, "applied", "conflict"}]
DeskServer == [repairs : SUBSET Repair, superseded : SUBSET Finding]

\* A plan and its key were made together, wherever they have got to.
KeysAgree(d, w, s) ==
  /\ d.plan # None => d.key = d.plan.made
  /\ \A c \in w : c.kind = "apply" => c.of.key = c.of.plan.made
  /\ \A r \in s.repairs : r.key = r.plan.made

\* Refused means not applied, then and later: the key is taken by another
\* request, or a source is gone for good.
RefusalsStand(w, s) ==
  \A c \in w : c.kind = "apply" /\ c.answer = "conflict" =>
    /\ c.of \notin s.repairs
    /\ (\E r \in s.repairs : r.key = c.of.key) \/ c.of.plan.sources \cap s.superseded # {}

\* At most one plan is being built, of what was selected under the tick of then.
Ticked(d, of, turned) == of \cap Today = {} \/ d.today \/ turned
OnePlan(d, w) ==
  /\ \A c, e \in w : c.kind = "plan" /\ e.kind = "plan" => c = e
  /\ \A c \in w : c.kind = "plan" =>
       /\ d.planning /\ Ticked(d, c.of, d.turned)
       /\ c.answer # None /\ c.answer.ok => c.answer.plan = c.of
PlanTicked(d) == d.plan # None => Ticked(d, d.plan.sources, d.plan.turned)

DeskInv(d, w, s) ==
  /\ d \in DeskRow /\ w \subseteq DeskCall /\ s \in DeskServer
  /\ KeysAgree(d, w, s) /\ RefusalsStand(w, s) /\ OnePlan(d, w) /\ PlanTicked(d)

LEMMA DeskShows ==
  ASSUME DeskInv(desk, wire, server)
  PROVE  StaleMeansNotApplied /\ TodayIsAcknowledged
<1>1. StaleMeansNotApplied
  <2> SUFFICES ASSUME NEW c \in wire, c.kind = "apply", c.answer = "conflict",
                      NEW r \in server.repairs, r.plan = c.of.plan, r.reason = c.of.reason
               PROVE  FALSE
    BY DEF StaleMeansNotApplied
  <2>1. c.of \in Repair /\ r \in Repair
    BY DEF DeskInv, DeskCall, DeskServer
  <2>2. r.key = c.of.key
    BY DEF DeskInv, KeysAgree
  <2>3. r = c.of
    BY <2>1, <2>2 DEF Repair
  <2> QED
    BY <2>3 DEF DeskInv, RefusalsStand
<1>2. TodayIsAcknowledged
  BY DEF DeskInv, TodayIsAcknowledged, PlanTicked, Ticked
<1> QED
  BY <1>1, <1>2

\* A step that leaves plan, key, tick and applications as they are.
LEMMA DeskIdles ==
  ASSUME NEW d \in DeskRow, NEW e \in DeskRow, NEW w, NEW v \in SUBSET DeskCall, NEW s, DeskInv(d, w, s),
         e.plan = None \/ (e.plan = d.plan /\ e.key = d.key /\ e.today = d.today),
         \A c \in v : c.kind \in {"plan", "apply"} => c \in w,
         \A c \in v : c.kind = "plan" => e.planning = d.planning,
         (e.today = d.today /\ e.turned = d.turned) \/ e.turned = d.planning
  PROVE  DeskInv(e, v, s)
<1>1. KeysAgree(e, v, s)
  BY DEF DeskInv, KeysAgree
<1>2. RefusalsStand(v, s)
  BY DEF DeskInv, RefusalsStand
<1>3. OnePlan(e, v)
  BY DEF DeskInv, OnePlan, Ticked, DeskRow
<1>4. PlanTicked(e)
  BY DEF DeskInv, PlanTicked, Ticked
<1> QED
  BY <1>1, <1>2, <1>3, <1>4 DEF DeskInv

LEMMA DeskClicks ==
  ASSUME DeskInv(desk, wire, server),
         (\E f \in Finding : ToggleFinding(f)) \/ (\E words \in 1..2 : Confirm(words)) \/ AcknowledgeToday
  PROVE  DeskInv(desk', wire', server')
<1>0. desk \in DeskRow /\ wire' = wire /\ server' = server /\ wire \in SUBSET DeskCall
  BY DEF DeskInv, ToggleFinding, Confirm, AcknowledgeToday, around
<1>1. /\ desk' \in DeskRow /\ desk'.planning = desk.planning
      /\ desk'.plan = None \/ (desk'.plan = desk.plan /\ desk'.key = desk.key /\ desk'.today = desk.today)
      /\ (desk'.today = desk.today /\ desk'.turned = desk.turned) \/ desk'.turned = desk.planning
  <2>1. ASSUME NEW f \in Finding, ToggleFinding(f)
        PROVE  /\ desk' \in DeskRow /\ desk'.planning = desk.planning /\ desk'.plan = None
               /\ desk'.today = desk.today /\ desk'.turned = desk.turned
    <3>1. PICK selected \in SUBSET Finding :
            selected = IF f \in desk.selected THEN desk.selected \ {f} ELSE desk.selected \cup {f}
      BY <1>0 DEF DeskRow
    <3>2. desk' = discardPlan([desk EXCEPT !.result = None, !.message = "none", !.selected = selected])
      BY <2>1, <3>1 DEF ToggleFinding
    <3> QED
      BY ZenonT(60), <1>0, <3>1, <3>2 DEF discardPlan, NoPlan, DeskRow
  <2>2. ASSUME NEW words \in 1..2, Confirm(words)
        PROVE  /\ desk' \in DeskRow /\ desk'.planning = desk.planning /\ desk'.plan = desk.plan
               /\ desk'.key = desk.key /\ desk'.today = desk.today /\ desk'.turned = desk.turned
    <3>1. words \in Nat
      OBVIOUS
    <3>2. desk' = [desk EXCEPT !.reason = words, !.confirmed = TRUE]
      BY <2>2 DEF Confirm
    <3> QED
      BY <1>0, <3>1, <3>2 DEF DeskRow
  <2>3. CASE AcknowledgeToday
    <3>1. PICK today \in BOOLEAN : today = ~ desk.today
      OBVIOUS
    <3>2. desk' = discardPlan([desk EXCEPT !.today = today, !.turned = desk.planning])
      BY <2>3, <3>1 DEF AcknowledgeToday
    <3>3. desk' \in DeskRow /\ desk'.planning = desk.planning /\ desk'.plan = None /\ desk'.turned = desk.planning
      BY ZenonT(60), <1>0, <3>2 DEF discardPlan, NoPlan, DeskRow
    <3> QED
      BY <3>3
  <2> QED
    BY <2>1, <2>2, <2>3
<1> QED
  BY <1>0, <1>1, DeskIdles

LEMMA DeskReads ==
  ASSUME DeskInv(desk, wire, server), Refresh \/ LoadMore
  PROVE  DeskInv(desk', wire', server')
<1>0. desk \in DeskRow /\ server' = server /\ wire \in SUBSET DeskCall /\ desk.page \in Nat
  BY DEF DeskInv, Refresh, LoadMore, around, DeskRow
<1>1. /\ desk' \in DeskRow /\ desk'.planning = desk.planning /\ desk'.plan = desk.plan
      /\ desk'.key = desk.key /\ desk'.today = desk.today /\ desk'.turned = desk.turned
  <2>1. CASE Refresh
    <3>1. desk' = Fresh(desk)
      BY <2>1 DEF Refresh
    <3> QED
      BY <1>0, <3>1 DEF Fresh, DeskRow
  <2>2. CASE LoadMore
    <3>1. desk' = [desk EXCEPT !.more = TRUE]
      BY <2>2 DEF LoadMore
    <3> QED
      BY <1>0, <3>1 DEF DeskRow
  <2> QED
    BY <2>1, <2>2
<1>2. PICK k \in {"findings", "more"}, n \in Nat : wire' = wire \cup {[kind |-> k, of |-> n, answer |-> None]}
  <2>1. desk.page + 1 \in Nat /\ 1 \in Nat
    BY <1>0
  <2>2. CASE Refresh
    <3>1. wire' = wire \cup {[kind |-> "findings", of |-> 1, answer |-> None]}
      BY <2>2 DEF Refresh, Send
    <3> QED
      BY <2>1, <3>1
  <2>3. CASE LoadMore
    <3>1. wire' = wire \cup {[kind |-> "more", of |-> desk.page + 1, answer |-> None]}
      BY <2>3 DEF LoadMore, Send
    <3> QED
      BY <2>1, <3>1
  <2> QED
    BY <2>2, <2>3
<1>3. PICK r \in DeskCall : wire' = wire \cup {r} /\ r.kind \notin {"plan", "apply"}
  <2> PICK r : r = [kind |-> k, of |-> n, answer |-> None]
    OBVIOUS
  <2>1. r \in DeskCall /\ r.kind = k
    BY DEF DeskCall
  <2> QED
    BY <1>2, <2>1
<1>4. /\ wire' \in SUBSET DeskCall /\ (\A c \in wire' : c.kind \in {"plan", "apply"} => c \in wire)
      /\ (\A c \in wire' : c.kind = "plan" => desk'.planning = desk.planning)
      /\ (desk'.plan = None \/ (desk'.plan = desk.plan /\ desk'.key = desk.key /\ desk'.today = desk.today))
      /\ ((desk'.today = desk.today /\ desk'.turned = desk.turned) \/ desk'.turned = desk.planning)
  BY <1>0, <1>1, <1>3
<1> QED
  BY <1>0, <1>1, <1>4, DeskIdles

LEMMA OthersMove ==
  ASSUME DeskInv(desk, wire, server), NEW f \in Finding, OthersRepair(f)
  PROVE  DeskInv(desk', wire', server')
<1>0. server \in DeskServer /\ wire' = wire /\ desk' = desk /\ server' = [server EXCEPT !.superseded = @ \cup {f}]
  BY DEF DeskInv, OthersRepair, around
<1>1. server' \in DeskServer /\ server'.repairs = server.repairs /\ server'.superseded = server.superseded \cup {f}
  BY <1>0 DEF DeskServer
<1>2. RefusalsStand(wire', server')
  BY <1>0, <1>1 DEF DeskInv, RefusalsStand
<1>3. KeysAgree(desk', wire', server')
  BY <1>0, <1>1 DEF DeskInv, KeysAgree
<1> QED
  BY <1>0, <1>1, <1>2, <1>3 DEF DeskInv

\* A plan is asked for under the tick it needs, and is the only one on its way.
LEMMA DeskBuilds ==
  ASSUME DeskInv(desk, wire, server), BuildPlan
  PROVE  DeskInv(desk', wire', server')
<1>0. desk \in DeskRow /\ server' = server /\ wire \in SUBSET DeskCall /\ Selected \subseteq Finding /\ ~ desk.planning
  BY DEF DeskInv, BuildPlan, MayBuild, around, DeskRow, Selected
<1>1. /\ desk' \in DeskRow /\ desk'.planning = TRUE /\ desk'.plan = desk.plan
      /\ desk'.key = desk.key /\ desk'.today = desk.today /\ desk'.turned = FALSE
  BY <1>0 DEF BuildPlan, DeskRow
<1>2. PICK sel \in SUBSET Finding : sel = Selected
  BY <1>0
<1>3. sel \cap Today = {} \/ desk.today
  BY <1>2 DEF BuildPlan, MayBuild, IncludesToday
<1> DEFINE r == [kind |-> "plan", of |-> sel, answer |-> None]
<1>4. r \in DeskCall /\ r.kind = "plan" /\ r.of = sel /\ r.answer = None
  BY DEF DeskCall
<1>5. wire' = wire \cup {r}
  BY <1>2 DEF BuildPlan, Send
<1> HIDE DEF r
<1>6. \A c \in wire : c.kind # "plan"
  BY <1>0 DEF DeskInv, OnePlan
<1>7. OnePlan(desk', wire')
  BY <1>1, <1>3, <1>4, <1>5, <1>6 DEF OnePlan, Ticked
<1>8. RefusalsStand(wire', server') /\ KeysAgree(desk', wire', server')
  BY <1>0, <1>1, <1>4, <1>5 DEF DeskInv, RefusalsStand, KeysAgree
<1>9. PlanTicked(desk')
  BY <1>1 DEF DeskInv, PlanTicked, Ticked
<1> QED
  BY <1>0, <1>1, <1>4, <1>5, <1>7, <1>8, <1>9 DEF DeskInv

\* What is sent is the plan on show, under the key it came with.
LEMMA DeskApplies ==
  ASSUME DeskInv(desk, wire, server), Apply
  PROVE  DeskInv(desk', wire', server')
<1>0. desk \in DeskRow /\ server' = server /\ wire \in SUBSET DeskCall /\ desk.plan # None /\ desk.key # None
  BY DEF DeskInv, Apply, CanApply, around
<1>1. /\ desk' \in DeskRow /\ desk'.planning = desk.planning /\ desk'.plan = desk.plan
      /\ desk'.key = desk.key /\ desk'.today = desk.today /\ desk'.turned = desk.turned
  BY <1>0 DEF Apply, DeskRow
<1>2. PICK k \in Key, p \in Plan, n \in Nat : k = desk.key /\ p = desk.plan /\ n = desk.reason
  BY <1>0 DEF DeskRow
<1>3. k = p.made
  BY <1>0, <1>2 DEF DeskInv, KeysAgree
<1> DEFINE u == [key |-> k, plan |-> p, reason |-> n]
           r == [kind |-> "apply", of |-> u, answer |-> None]
<1>4. u \in Repair /\ u.key = u.plan.made
  BY <1>3 DEF Repair
<1>5. wire' = wire \cup {r}
  BY <1>2 DEF Apply, Send
<1> HIDE DEF u
<1>6. r \in DeskCall /\ r.kind = "apply" /\ r.of = u /\ r.answer # "conflict"
  BY <1>4, DeskAssumption DEF DeskCall
<1> HIDE DEF r
<1>7. OnePlan(desk', wire')
  BY <1>1, <1>5, <1>6 DEF DeskInv, OnePlan, Ticked
<1>8. RefusalsStand(wire', server') /\ KeysAgree(desk', wire', server')
  BY <1>0, <1>1, <1>4, <1>5, <1>6 DEF DeskInv, RefusalsStand, KeysAgree
<1>9. PlanTicked(desk')
  BY <1>1 DEF DeskInv, PlanTicked, Ticked
<1> QED
  BY <1>0, <1>1, <1>5, <1>6, <1>7, <1>8, <1>9 DEF DeskInv

LEMMA DeskServed ==
  ASSUME DeskInv(desk, wire, server), NEW c \in wire, Serve(c)
  PROVE  DeskInv(desk', wire', server')
<1>0. /\ desk' = desk /\ server' = server /\ wire \in SUBSET DeskCall /\ c \in DeskCall
      /\ c.kind \in {"findings", "more", "again", "plan"} /\ Finding \ server.superseded \subseteq Finding
  BY DEF DeskInv, Serve, around
<1>1. PICK a : a = IF c.kind = "plan"
                     THEN IF c.of \cap server.superseded = {} THEN [ok |-> TRUE, plan |-> c.of]
                          ELSE [ok |-> FALSE, plan |-> {}]
                     ELSE [ok |-> TRUE, plan |-> Finding \ server.superseded]
  OBVIOUS
<1>2. a \in Found /\ (c.kind = "plan" /\ a.ok => a.plan = c.of)
  <2>1. CASE c.kind = "plan"
    <3>1. c.of \subseteq Finding
      BY <1>0, <2>1 DEF DeskCall
    <3>2. a = [ok |-> TRUE, plan |-> c.of] \/ a = [ok |-> FALSE, plan |-> {}]
      BY <1>1, <2>1
    <3>3. [ok |-> TRUE, plan |-> c.of] \in Found /\ [ok |-> FALSE, plan |-> {}] \in Found
      BY <3>1 DEF Found
    <3>4. a.ok => a.plan = c.of
      BY <3>2
    <3> QED
      BY <3>2, <3>3, <3>4
  <2>2. CASE c.kind # "plan"
    BY <1>1, <2>2 DEF Found
  <2> QED
    BY <2>1, <2>2
<1> DEFINE r == [c EXCEPT !.answer = a]
<1>3. wire' = (wire \ {c}) \cup {r}
  BY <1>1 DEF Serve
<1>4. r \in DeskCall /\ r.kind = c.kind /\ r.of = c.of /\ r.answer = a
  BY <1>0, <1>2 DEF DeskCall
<1> HIDE DEF r
<1>5. OnePlan(desk, wire')
  <2>1. \A e \in wire : e.kind = "plan" /\ c.kind = "plan" => e = c
    BY DEF DeskInv, OnePlan
  <2> QED
    BY <1>2, <1>3, <1>4, <2>1 DEF DeskInv, OnePlan
<1>6. KeysAgree(desk, wire', server) /\ RefusalsStand(wire', server)
  BY <1>0, <1>3, <1>4 DEF DeskInv, KeysAgree, RefusalsStand
<1> QED
  BY <1>0, <1>3, <1>4, <1>5, <1>6 DEF DeskInv

\* A key is used for one request only, and what it was refused for lasts.
LEMMA DeskApplied ==
  ASSUME DeskInv(desk, wire, server), NEW c \in wire, ServeApply(c)
  PROVE  DeskInv(desk', wire', server')
<1>0. /\ desk' = desk /\ server \in DeskServer /\ wire \in SUBSET DeskCall /\ c \in DeskCall /\ c.kind = "apply"
  BY DEF DeskInv, ServeApply, around
<1>1. c.of \in Repair /\ c.of.plan.sources \subseteq Finding /\ c.of.key = c.of.plan.made
  BY <1>0 DEF DeskInv, KeysAgree, DeskCall, Repair, Plan
<1>2. PICK known : known = {r \in server.repairs : r.key = c.of.key}
  OBVIOUS
<1>3. PICK answer : answer = IF known # {} THEN IF c.of \in known THEN "applied" ELSE "conflict"
                             ELSE IF c.of.plan.sources \cap server.superseded # {} THEN "conflict" ELSE "applied"
  OBVIOUS
<1> DEFINE r == [c EXCEPT !.answer = answer]
<1>4. /\ wire' = (wire \ {c}) \cup {r}
      /\ server' = IF answer = "applied" /\ known = {}
                     THEN [repairs |-> server.repairs \cup {c.of},
                           superseded |-> server.superseded \cup c.of.plan.sources]
                     ELSE server
  BY <1>2, <1>3 DEF ServeApply
<1>5. r \in DeskCall /\ r.kind = c.kind /\ r.of = c.of /\ r.answer = answer
  <2>1. answer \in {"applied", "conflict"}
    BY <1>3
  <2> QED
    BY <1>0, <2>1 DEF DeskCall
<1> HIDE DEF r
<1>6. OnePlan(desk, wire')
  BY <1>0, <1>4, <1>5 DEF DeskInv, OnePlan
<1>7. CASE answer = "applied" /\ known = {}
  <2>1. /\ server'.repairs = server.repairs \cup {c.of}
        /\ server'.superseded = server.superseded \cup c.of.plan.sources
        /\ server' \in DeskServer
    BY <1>0, <1>1, <1>4, <1>7 DEF DeskServer
  <2>2. c.of.plan.sources \cap server.superseded = {}
    BY <1>3, <1>7
  <2>3. RefusalsStand(wire', server')
    <3> SUFFICES ASSUME NEW d \in wire', d.kind = "apply", d.answer = "conflict"
                 PROVE  /\ d.of \notin server'.repairs
                        /\ (\E q \in server'.repairs : q.key = d.of.key) \/ d.of.plan.sources \cap server'.superseded # {}
      BY DEF RefusalsStand
    <3>1. d \in wire
      BY <1>4, <1>5, <1>7
    <3>2. /\ d.of \notin server.repairs
          /\ (\E q \in server.repairs : q.key = d.of.key) \/ d.of.plan.sources \cap server.superseded # {}
      BY <3>1 DEF DeskInv, RefusalsStand
    <3>3. d.of # c.of
      BY <1>2, <1>7, <2>2, <3>2
    <3> QED
      BY <2>1, <3>2, <3>3
  <2>4. KeysAgree(desk, wire', server')
    BY <1>1, <1>4, <1>5, <2>1 DEF DeskInv, KeysAgree
  <2> QED
    BY <1>0, <1>4, <1>5, <1>6, <2>1, <2>3, <2>4 DEF DeskInv
<1>8. CASE ~ (answer = "applied" /\ known = {})
  <2>1. server' = server
    BY <1>4, <1>8
  <2>2. answer = "conflict" =>
          /\ c.of \notin server.repairs
          /\ (\E q \in server.repairs : q.key = c.of.key) \/ c.of.plan.sources \cap server.superseded # {}
    BY <1>2, <1>3
  <2>3. RefusalsStand(wire', server')
    BY <1>4, <1>5, <2>1, <2>2 DEF DeskInv, RefusalsStand
  <2>4. KeysAgree(desk, wire', server')
    BY <1>1, <1>4, <1>5, <2>1 DEF DeskInv, KeysAgree
  <2> QED
    BY <1>0, <1>4, <1>5, <1>6, <2>1, <2>3, <2>4 DEF DeskInv
<1> QED
  BY <1>7, <1>8

LEMMA FindingsAnswered ==
  ASSUME DeskInv(desk, wire, server), NEW c \in wire, FindingsArrive(c) \/ FindingsFail(c)
  PROVE  DeskInv(desk', wire', server')
<1>0. /\ desk \in DeskRow /\ server' = server /\ wire \in SUBSET DeskCall /\ c \in DeskCall
      /\ wire' = wire \ {c} /\ c.kind \in {"findings", "more", "again"}
  BY DEF DeskInv, FindingsArrive, FindingsFail, around
<1>1. c.of \in Nat /\ c.answer \in Found \cup {None}
  BY <1>0 DEF DeskCall
<1>2. PICK b \in BOOLEAN : b = (desk.applying /\ c.kind # "again")
  OBVIOUS
<1>3. /\ desk' \in DeskRow /\ desk'.planning = desk.planning /\ desk'.plan = desk.plan
      /\ desk'.key = desk.key /\ desk'.today = desk.today /\ desk'.turned = desk.turned
  <2>1. CASE FindingsArrive(c)
    <3>1. PICK f \in SUBSET Finding : f = c.answer.plan
      BY <1>1, <2>1 DEF FindingsArrive, Replied, Found
    <3>2. PICK g \in SUBSET Finding : g = desk.findings \cup f
      BY <1>0 DEF DeskRow
    <3>3. PICK n \in Nat : n = c.of
      BY <1>1
    <3>4. desk' = IF c.kind = "more"
                    THEN [desk EXCEPT !.more = FALSE, !.page = n, !.findings = g]
                    ELSE [desk EXCEPT !.loading = FALSE, !.page = 1, !.findings = f, !.applying = b]
      BY <1>2, <2>1, <3>1, <3>2, <3>3 DEF FindingsArrive
    <3>5. CASE c.kind = "more"
      BY <1>0, <3>4, <3>5 DEF DeskRow
    <3>6. CASE c.kind # "more"
      BY <1>0, <3>4, <3>6 DEF DeskRow
    <3> QED
      BY <3>5, <3>6
  <2>2. CASE FindingsFail(c)
    <3>1. desk' = IF c.kind = "more" THEN [desk EXCEPT !.more = FALSE]
                  ELSE [desk EXCEPT !.loading = FALSE, !.error = TRUE, !.applying = b]
      BY <1>2, <2>2 DEF FindingsFail
    <3> QED
      BY ZenonT(60), <1>0, <3>1 DEF DeskRow
  <2> QED
    BY <2>1, <2>2
<1>4. /\ wire' \in SUBSET DeskCall /\ (\A d \in wire' : d.kind \in {"plan", "apply"} => d \in wire)
      /\ (\A d \in wire' : d.kind = "plan" => desk'.planning = desk.planning)
      /\ (desk'.plan = None \/ (desk'.plan = desk.plan /\ desk'.key = desk.key /\ desk'.today = desk.today))
      /\ ((desk'.today = desk.today /\ desk'.turned = desk.turned) \/ desk'.turned = desk.planning)
  BY <1>0, <1>3
<1> QED
  BY <1>0, <1>3, <1>4, DeskIdles

\* The plan that comes is the one asked for, with a key made for it.
LEMMA PlanAnswered ==
  ASSUME DeskInv(desk, wire, server), NEW c \in wire, PlanArrives(c) \/ PlanFails(c)
  PROVE  DeskInv(desk', wire', server')
<1>0. /\ desk \in DeskRow /\ server' = server /\ wire \in SUBSET DeskCall /\ c \in DeskCall
      /\ wire' = wire \ {c} /\ c.kind = "plan" /\ \A d \in wire' : d.kind # "plan"
  BY DEF DeskInv, OnePlan, PlanArrives, PlanFails, around
<1>1. CASE PlanArrives(c) /\ c.answer.ok
  <2>1. c.answer \in Found /\ c.answer.plan = c.of /\ Ticked(desk, c.of, desk.turned)
    BY <1>0, <1>1 DEF DeskInv, OnePlan, DeskCall, PlanArrives, Replied
  <2>2. PICK of \in SUBSET Finding : of = c.of
    BY <1>0 DEF DeskCall
  <2>3. PICK k \in Key \ desk.used :
          desk' = [NoPlan(desk) EXCEPT !.planning = FALSE, !.key = k,
                                       !.plan = [sources |-> of, made |-> k, turned |-> desk.turned],
                                       !.used = @ \cup {k}]
    BY <1>1, <2>1, <2>2 DEF PlanArrives
  <2>4. PICK p : p = [sources |-> of, made |-> k, turned |-> desk.turned]
    OBVIOUS
  <2>5. p \in Plan /\ p.sources = of /\ p.made = k /\ p.turned = desk.turned
    BY <1>0, <2>4 DEF Plan, DeskRow
  <2>6. PICK e : e = NoPlan(desk)
    OBVIOUS
  <2>7. e \in DeskRow /\ e.today = desk.today /\ e.turned = desk.turned
    BY <1>0, <2>6 DEF NoPlan, DeskRow
  <2>8. desk' = [e EXCEPT !.planning = FALSE, !.key = k, !.plan = p, !.used = @ \cup {k}]
    BY <2>3, <2>4, <2>6
  <2>9. desk' \in DeskRow /\ desk'.plan = p /\ desk'.key = k /\ desk'.today = desk.today
    BY <2>5, <2>7, <2>8 DEF DeskRow
  <2>10. PlanTicked(desk')
    BY <2>1, <2>2, <2>5, <2>9 DEF PlanTicked, Ticked
  <2>11. KeysAgree(desk', wire', server')
    BY <1>0, <2>5, <2>9 DEF DeskInv, KeysAgree
  <2>12. OnePlan(desk', wire') /\ RefusalsStand(wire', server')
    BY <1>0 DEF DeskInv, OnePlan, RefusalsStand
  <2> QED
    BY <1>0, <2>9, <2>10, <2>11, <2>12 DEF DeskInv
<1>2. CASE ~ (PlanArrives(c) /\ c.answer.ok)
  <2>1. desk' = [desk EXCEPT !.planning = FALSE, !.plan = None, !.key = None]
    BY <1>2 DEF PlanArrives, PlanFails
  <2>2. desk' \in DeskRow /\ desk'.plan = None /\ desk'.today = desk.today /\ desk'.turned = desk.turned
    BY <1>0, <2>1 DEF DeskRow
  <2>3. /\ wire' \in SUBSET DeskCall /\ (\A d \in wire' : d.kind \in {"plan", "apply"} => d \in wire)
        /\ (\A d \in wire' : d.kind = "plan" => desk'.planning = desk.planning)
        /\ (desk'.plan = None \/ (desk'.plan = desk.plan /\ desk'.key = desk.key /\ desk'.today = desk.today))
        /\ ((desk'.today = desk.today /\ desk'.turned = desk.turned) \/ desk'.turned = desk.planning)
    BY <1>0, <2>2
  <2> QED
    BY <1>0, <2>2, <2>3, DeskIdles
<1> QED
  BY <1>1, <1>2

LEMMA ApplyAnswered ==
  ASSUME DeskInv(desk, wire, server), NEW c \in wire, ApplyArrives(c) \/ ApplyFails(c)
  PROVE  DeskInv(desk', wire', server')
<1>0. /\ desk \in DeskRow /\ server' = server /\ wire \in SUBSET DeskCall /\ c \in DeskCall /\ c.kind = "apply"
  BY DEF DeskInv, ApplyArrives, ApplyFails, around
<1>1. CASE ApplyArrives(c)
  <2>1. PICK result \in Repair \cup {None} : result = IF c.answer = "applied" THEN c.of ELSE desk.result
    BY <1>0 DEF DeskRow, DeskCall
  <2>2. PICK message \in {"none", "changed"} : message = IF c.answer = "conflict" THEN "changed" ELSE desk.message
    BY <1>0 DEF DeskRow
  <2>3. PICK e : e = NoPlan(desk)
    OBVIOUS
  <2>4. /\ e \in DeskRow /\ e.plan = None /\ e.planning = desk.planning
        /\ e.result = desk.result /\ e.message = desk.message
    BY <1>0, <2>3 DEF NoPlan, DeskRow
  <2> PICK b \in BOOLEAN : b = desk.planning
    BY <1>0 DEF DeskRow
  <2>5. PICK f : f = [e EXCEPT !.selected = {}, !.today = FALSE, !.turned = b, !.result = result, !.message = message]
    OBVIOUS
  <2>6. f \in DeskRow /\ f.plan = None /\ f.turned = desk.planning /\ f.planning = desk.planning
    <3>1. f \in DeskRow
      BY ZenonT(60), <2>4, <2>5 DEF DeskRow
    <3>2. f.plan = None /\ f.turned = b /\ f.planning = e.planning
      BY <2>4, <2>5 DEF DeskRow
    <3> QED
      BY <2>4, <3>1, <3>2
  <2>7. desk' = Fresh(f)
    BY <1>1, <2>1, <2>2, <2>3, <2>4, <2>5 DEF ApplyArrives
  <2>8. /\ desk' \in DeskRow /\ desk'.plan = None /\ desk'.turned = desk.planning
        /\ desk'.planning = desk.planning
    BY <2>6, <2>7 DEF Fresh, DeskRow
  <2>9. PICK r \in DeskCall : wire' = (wire \ {c}) \cup {r} /\ r.kind = "again"
    <3> PICK r : r = [kind |-> "again", of |-> 1, answer |-> None]
      OBVIOUS
    <3>1. r \in DeskCall /\ r.kind = "again"
      BY DEF DeskCall
    <3> QED
      BY <1>1, <3>1 DEF ApplyArrives
  <2>10. /\ wire' \in SUBSET DeskCall /\ (\A d \in wire' : d.kind \in {"plan", "apply"} => d \in wire)
         /\ (\A d \in wire' : d.kind = "plan" => desk'.planning = desk.planning)
         /\ (desk'.plan = None \/ (desk'.plan = desk.plan /\ desk'.key = desk.key /\ desk'.today = desk.today))
         /\ ((desk'.today = desk.today /\ desk'.turned = desk.turned) \/ desk'.turned = desk.planning)
    BY <1>0, <2>8, <2>9
  <2> QED
    BY <1>0, <2>8, <2>10, DeskIdles
<1>2. CASE ApplyFails(c)
  <2>1. wire' = wire \ {c} /\ desk' = [desk EXCEPT !.applying = FALSE, !.failed = TRUE]
    BY <1>2 DEF ApplyFails, KeyKept
  <2>2. /\ desk' \in DeskRow /\ desk'.planning = desk.planning /\ desk'.plan = desk.plan
        /\ desk'.key = desk.key /\ desk'.today = desk.today /\ desk'.turned = desk.turned
    BY <1>0, <2>1 DEF DeskRow
  <2>3. /\ wire' \in SUBSET DeskCall /\ (\A d \in wire' : d.kind \in {"plan", "apply"} => d \in wire)
        /\ (\A d \in wire' : d.kind = "plan" => desk'.planning = desk.planning)
        /\ (desk'.plan = None \/ (desk'.plan = desk.plan /\ desk'.key = desk.key /\ desk'.today = desk.today))
        /\ ((desk'.today = desk.today /\ desk'.turned = desk.turned) \/ desk'.turned = desk.planning)
    BY <1>0, <2>1, <2>2
  <2> QED
    BY <1>0, <2>2, <2>3, DeskIdles
<1> QED
  BY <1>1, <1>2

\* The repair centre, whatever is clicked and answered.
LEMMA DeskStepKeeps ==
  ASSUME DeskInv(desk, wire, server), DeskNext \/ DeskAnswered
  PROVE  DeskInv(desk', wire', server')
<1>1. CASE DeskNext
  <2>1. CASE \E f \in Finding : ToggleFinding(f) \/ OthersRepair(f)
    BY <2>1, DeskClicks, OthersMove
  <2> QED
    BY <1>1, <2>1, DeskClicks, DeskReads, DeskBuilds, DeskApplies DEF DeskNext
<1>2. CASE DeskAnswered
  BY <1>2, DeskServed, DeskApplied, FindingsAnswered, PlanAnswered, ApplyAnswered DEF DeskAnswered
<1> QED
  BY <1>1, <1>2

-----------------------------------------------------------------------------
(* The portal *)

Screens == ListPages \cup {"queue", "walk", "history", "publish", "editor", "desk"}

\* One screen is open, and what is in flight is its own.
PortalInv ==
  /\ screen \in Screens
  /\ screen \in ListPages => ListInv(screen, lists, wire)
  /\ screen = "walk" => WalkInv(lists, server) /\ wire = {}
  /\ screen = "queue" => QueueInv(lists, wire, server)
  /\ screen = "history" => PagerInv(pager, polls) /\ wire = {}
  /\ screen # "history" => polls = <<>>
  /\ screen = "publish" => DialogInv(lists, wire, server)
  /\ screen = "editor" => EditorInv(editor, wire)
  /\ screen = "desk" => DeskInv(desk, wire, server)

LEMMA ListsOpen ==
  ASSUME Init, screen \in ListPages
  PROVE  ListInv(screen, lists, wire)
<1>1. lists = Loading(Idle, 1) /\ wire = Mounted(screen)
  BY DEF Init, ListPages
<1>2. 1 \in Question
  BY ListsAssumption
<1>3. /\ lists \in ListRow /\ lists.of = 1 /\ lists.loading /\ ~ lists.astray /\ ~ lists.open
      /\ lists.operations = None
  BY <1>1, <1>2 DEF Loading, Idle, ListRow
<1>4. \A k \in {"rows", "operations"} :
        /\ [kind |-> k, of |-> 1, current |-> TRUE] \in ListCall
        /\ [kind |-> k, of |-> 1, current |-> TRUE].of = 1
        /\ [kind |-> k, of |-> 1, current |-> TRUE].kind = k
  BY <1>2 DEF ListCall, ReadKinds
<1>5. /\ wire \subseteq ListCall
      /\ \A c \in wire : c.of = 1 /\ c.kind \in {"rows", "operations"} /\ (screen # "dispatch" => c.kind = "rows")
  <2>1. wire = IF screen = "dispatch" THEN {[kind |-> k, of |-> 1, current |-> TRUE] : k \in {"rows", "operations"}}
               ELSE {[kind |-> "rows", of |-> 1, current |-> TRUE]}
    BY <1>1 DEF Mounted, ListPages
  <2> QED
    BY <1>4, <2>1
<1>6. RowsAgree(lists, wire)
  BY <1>2, <1>3, <1>5 DEF RowsAgree
<1>7. ScreensApart(screen, lists, wire) /\ ImpactAgrees(screen, lists, wire)
  BY <1>3, <1>5 DEF ScreensApart, ImpactAgrees
<1> QED
  BY <1>3, <1>5, <1>6, <1>7 DEF ListInv

LEMMA WalkOpens ==
  ASSUME Init, screen = "walk"
  PROVE  WalkInv(lists, server) /\ wire = {}
<1>1. lists = WalkInit /\ wire = Mounted("walk") /\ server \in SUBSET Customer
  BY DEF Init, ListPages
<1>2. wire = {}
  BY <1>1 DEF Mounted, ListPages
<1> QED
  BY <1>1, <1>2 DEF WalkInit, WalkInv

LEMMA QueueOpensRight ==
  ASSUME Init, screen = "queue"
  PROVE  QueueInv(lists, wire, server)
<1>1. PICK v \in Visit \cup {None} : lists = QueueOpens(v)
  BY DEF Init, ListPages
<1>2. wire = {QueueRequest(lists)} /\ 1 \in Question
  BY ListsAssumption DEF Init
<1>3. /\ lists \in QueueRow /\ lists.focus = v /\ lists.of = 1 /\ lists.loading /\ lists.open = None
  BY <1>1, <1>2 DEF QueueOpens, QueueRow
<1>4. PICK q \in Visit \cup Question : q = Query(lists)
  BY <1>2, <1>3 DEF Query
<1>5. PICK r \in QueueCall : wire = {r} /\ r.kind = "queue" /\ r.of = q /\ r.seen = None
  <2> PICK r : r = [kind |-> "queue", of |-> q, current |-> TRUE, seen |-> None]
    OBVIOUS
  <2>1. r \in QueueCall /\ r.kind = "queue" /\ r.of = q /\ r.seen = None
    BY DEF QueueCall
  <2> QED
    BY <1>2, <1>4, <2>1 DEF QueueRequest
<1>6. AnswersAgree(lists, wire)
  BY <1>3, <1>4, <1>5 DEF AnswersAgree
<1>7. LocksAgree(lists, wire) /\ DetailAgrees(lists, wire, server)
  BY <1>3, <1>5 DEF LocksAgree, DetailAgrees
<1> QED
  BY <1>3, <1>5, <1>6, <1>7 DEF QueueInv

LEMMA HistoryOpens ==
  ASSUME Init, screen = "history"
  PROVE  PagerInv(pager, polls) /\ wire = {}
<1>1. pager = Waiting(Pager) /\ polls = InForce(Load(<<>>, 1, FALSE)) /\ wire = Mounted("history")
  BY DEF Init
<1>2. wire = {}
  BY <1>1 DEF Mounted, ListPages
<1>3. 1 \in Page
  BY HistoryAssumption
<1>4. Pager \in PagerRow /\ Pager.page = 1 /\ ~ Pager.disorder
  BY <1>3 DEF Pager, PagerRow
<1>5. pager \in PagerRow /\ pager.page = 1 /\ pager.loading /\ pager.pending /\ ~ pager.disorder
  BY <1>1, <1>4, WaitingIs
<1>6. <<>> \in Seq(PollCall) /\ DOMAIN <<>> = {}
  OBVIOUS
<1>7. Lined(<<>>)
  BY <1>6 DEF Lined
<1>8. PICK s \in Seq(PollCall) : s = Load(<<>>, 1, FALSE) /\ Lined(s) /\ Paged(s, 1, pager.astray)
  <2>1. FALSE \in BOOLEAN /\ (FALSE => \A i \in DOMAIN <<>> : ~ <<>>[i].foreground)
    OBVIOUS
  <2>2. /\ Load(<<>>, 1, FALSE) \in Seq(PollCall) /\ Lined(Load(<<>>, 1, FALSE))
        /\ Paged(Load(<<>>, 1, FALSE), 1, pager.astray)
    BY <1>3, <1>6, <1>7, <2>1, LoadAgrees
  <2> QED
    BY <2>2
<1>9. polls \in Seq(PollCall) /\ Lined(polls) /\ Paged(polls, pager.page, pager.astray)
  BY <1>1, <1>5, <1>8, InForceAgrees
<1> QED
  BY <1>2, <1>5, <1>9, WaitingAgrees

LEMMA DialogScreenOpens ==
  ASSUME Init, screen = "publish"
  PROVE  DialogInv(lists, wire, server)
<1>1. lists = NewHistory /\ wire = Mounted("publish") /\ server = [r \in Run |-> Solving(r)]
  BY DEF Init, ListPages
<1>2. wire = {}
  BY <1>1 DEF Mounted, ListPages
<1>3. lists \in DialogRow /\ lists.target = None /\ lists.focus = None
  <2>1. {} \in SUBSET RunRow /\ {} \in SUBSET Gate /\ {} \in SUBSET (Run \X Gate) /\ None \in RunRow \cup {None}
    OBVIOUS
  <2> DEFINE rows == SUBSET RunRow
             row == RunRow \cup {None}
             gates == SUBSET Gate
             signs == SUBSET (Run \X Gate)
  <2>2. DialogRow = [rows : rows, focus : Run \cup {None}, linked : row, lost : BOOLEAN, target : row, acks : gates,
                     reason : BOOLEAN, publishing : BOOLEAN, signed : signs]
    BY DEF DialogRow
  <2>3. {} \in rows /\ {} \in gates /\ {} \in signs /\ None \in row
    BY <2>1
  <2>4. None \in Run \cup {None}
    OBVIOUS
  <2> HIDE DEF rows, row, gates, signs
  <2>5. NewHistory \in DialogRow
    BY <2>2, <2>3, <2>4 DEF NewHistory
  <2>6. NewHistory.target = None /\ NewHistory.focus = None
    BY DEF NewHistory
  <2> QED
    BY <1>1, <2>5, <2>6
<1>4. \A r \in Run : Solving(r) \in RunRow /\ Solving(r).id = r
  BY DEF Solving, RunRow
<1>5. server \in [Run -> RunRow] /\ \A r \in Run : server[r].id = r
  BY <1>1, <1>4
<1>6. TicksAgree(lists) /\ PublishesAgree(wire, server) /\ LinkAgrees(lists, wire)
  BY <1>2, <1>3 DEF TicksAgree, PublishesAgree, LinkAgrees, Missing
<1> QED
  BY <1>2, <1>3, <1>5, <1>6 DEF DialogInv

LEMMA EditorOpens ==
  ASSUME Init, screen = "editor"
  PROVE  EditorInv(editor, wire)
<1>1. editor = ClosedEditor /\ wire = Mounted("editor")
  BY DEF Init
<1>2. wire = {}
  BY <1>1 DEF Mounted, ListPages
<1>3. FirstWindow \in Window
  BY EditorAssumption DEF FirstWindow
<1>4. editor \in EditorRow /\ editor.visitId = None /\ editor.check = None /\ editor.free = None
  <2> DEFINE assignments == [crew : SUBSET Person, driver : Person \cup {None},
                             status : {"none", "draft", "published"}, pinned : BOOLEAN]
             checks == {None} \cup [visit : Visit, form : CrewForm, eligible : BOOLEAN]
             frees == {None} \cup [visit : Visit, form : FreeForm]
  <2>1. EditorRow = [visitId : Visit \cup {None}, shown : Visit \cup {None}, assignment : assignments,
                     form : CrewForm, formVisit : Visit \cup {None}, reason : BOOLEAN, loading : BOOLEAN,
                     error : BOOLEAN, check : checks, checking : BOOLEAN, free : frees, locking : BOOLEAN,
                     saving : BOOLEAN, removing : BOOLEAN, astray : BOOLEAN]
    BY DEF EditorRow
  <2>2. None \in checks /\ None \in frees
    OBVIOUS
  <2>3. Unassigned \in assignments
    <3>0. PICK a : a = [crew |-> {}, driver |-> None, status |-> "none", pinned |-> FALSE]
      OBVIOUS
    <3>1. a \in Assignment
      BY <3>0 DEF Assignment
    <3>2. Unassigned \in Assignment
      <4>1. a.status = "none"
        BY <3>0
      <4> QED
        BY <3>1, <4>1 DEF Unassigned
    <3> QED
      BY <3>2, AssignmentIs
  <2>4. PICK form \in CrewForm : form = [crew |-> {}, driver |-> None, window |-> FirstWindow]
    BY <1>3 DEF CrewForm
  <2> HIDE DEF assignments, checks, frees
  <2> QED
    BY <1>1, <2>1, <2>2, <2>3, <2>4 DEF ClosedEditor
<1>5. LoadsAgree(editor, wire) /\ ChecksAgree(editor, wire) /\ FreeAgrees(editor, wire)
  BY <1>2, <1>4 DEF LoadsAgree, ChecksAgree, FreeAgrees
<1> QED
  BY <1>2, <1>4, <1>5 DEF EditorInv

LEMMA DeskOpens ==
  ASSUME Init, screen = "desk"
  PROVE  DeskInv(desk, wire, server)
<1>1. desk = NewDesk /\ server = NewServer /\ wire = Mounted("desk")
  BY DEF Init
<1>2. PICK r \in DeskCall : wire = {r} /\ r.kind = "findings"
  <2> PICK r : r = [kind |-> "findings", of |-> 1, answer |-> None]
    OBVIOUS
  <2>1. r \in DeskCall /\ r.kind = "findings"
    BY DEF DeskCall
  <2> QED
    BY <1>1, <2>1 DEF Mounted, ListPages
<1>3. desk \in DeskRow /\ desk.plan = None
  BY <1>1 DEF NewDesk, DeskRow
<1>4. server \in DeskServer /\ server.repairs = {}
  BY <1>1 DEF NewServer, DeskServer
<1>5. KeysAgree(desk, wire, server) /\ RefusalsStand(wire, server) /\ OnePlan(desk, wire) /\ PlanTicked(desk)
  BY <1>2, <1>3, <1>4 DEF KeysAgree, RefusalsStand, OnePlan, PlanTicked
<1> QED
  BY <1>2, <1>3, <1>4, <1>5 DEF DeskInv

LEMMA PortalOpens == Init => PortalInv
<1> SUFFICES ASSUME Init PROVE PortalInv
  OBVIOUS
<1>1. screen \in Screens /\ (screen # "history" => polls = <<>>)
  BY DEF Init, Screens
<1> QED
  BY <1>1, ListsOpen, WalkOpens, QueueOpensRight, HistoryOpens, DialogScreenOpens, EditorOpens, DeskOpens DEF PortalInv

\* What a step of one screen is about: that screen stays open, and nothing polls.
LEMMA ListsBelong ==
  ASSUME ListsNext \/ ListsAnswered
  PROVE  /\ screen' = screen /\ polls' = polls
         /\ \/ screen \in ListPages \cup {"walk"}
            \/ \E c \in wire : ListFails(c) \/ ChangeRefused(c)
<1>1. CASE ListsNext
  <2>1. /\ screen \in ListPages \cup {"walk"}
        /\ (UNCHANGED others) \/ UNCHANGED <<clicks, screen, wire, lists, pager, polls, editor, desk>>
           \/ UNCHANGED <<clicks, screen, wire, pager, polls, editor, desk>>
    BY <1>1 DEF ListsNext, ListPages, AgreementsFilter, CustomersAsk, CalendarMoves, VisitsMove, DispatchAsk,
         AgreementsChange, CustomersSubmit, VisitsConfirmMove, GenerateOpens, GenerateCloses,
         GenerateConfirms, DispatchChange, CustomerAdded, CustomerLeaves
  <2> QED
    BY <2>1 DEF others
<1>2. CASE WalkPage
  BY <1>2 DEF WalkPage, others
<1>3. ASSUME NEW c \in wire,
             \/ AgreementsLoaded(c) \/ AgreementsChanged(c) \/ CalendarLoaded(c) \/ VisitsLoaded(c)
             \/ VisitsAdjusted(c) \/ GenerateApplied(c) \/ DispatchVisits(c) \/ DispatchCrews(c)
             \/ DispatchChanged(c) \/ CustomersCreated(c) \/ CustomersRefused(c)
             \/ \E b \in BOOLEAN : CustomersLoaded(c, b) \/ Previewed(c, b) \/ DispatchOperations(c, b)
      PROVE  screen \in ListPages /\ UNCHANGED others
  BY <1>3 DEF ListPages, AgreementsLoaded, AgreementsChanged, CalendarLoaded, VisitsLoaded, VisitsAdjusted,
       GenerateApplied, DispatchVisits, DispatchCrews, DispatchChanged, CustomersCreated, CustomersRefused,
       CustomersLoaded, Previewed, DispatchOperations
<1>4. ASSUME NEW c \in wire, ListFails(c) \/ ChangeRefused(c) PROVE UNCHANGED others
  BY <1>4 DEF ListFails, ChangeRefused
<1> QED
  BY <1>1, <1>2, <1>3, <1>4 DEF ListsAnswered, others

LEMMA QueueBelongs ==
  ASSUME QueueNext \/ QueueAnswered
  PROVE  screen = "queue" /\ screen' = screen /\ polls' = polls
<1>1. CASE QueueNext
  BY <1>1 DEF QueueNext, QueueAsk, QueueFollows, OpenDetail, QueueAssigns, CloseDetail, ToggleVisitLock, others
<1>2. CASE QueueAnswered
  <2>1. PICK c \in wire :
    \/ \E found \in SUBSET Visit : QueueLoaded(c, found)
    \/ \E why \in {"VALIDATION_FAILED", "other"} : QueueFails(c, why)
    \/ QueueAssigned(c) \/ DetailServed(c) \/ DetailArrives(c) \/ DetailFails(c)
    \/ LockServed(c) \/ LockAnswered(c) \/ LockFails(c)
    BY <1>2 DEF QueueAnswered
  <2> QED
    BY <2>1 DEF QueueLoaded, QueueFails, QueueAssigned, DetailServed, DetailArrives, DetailFails,
         LockServed, LockAnswered, LockFails, others
<1> QED
  BY <1>1, <1>2

LEMMA HistoryBelongs ==
  ASSUME screen # "history" => polls = <<>>, HistoryNext \/ HistoryAnswered
  PROVE  screen = "history" /\ screen' = screen /\ wire' = wire
<1>1. CASE HistoryNext
  BY <1>1 DEF HistoryNext, TurnPage, Poll, Minute, HandleStart, HandleCancel, OpenPublish, ConfirmPublish,
       Acts, elsewhere
<1>2. CASE HistoryAnswered
  <2>1. PICK i \in DOMAIN polls : PollAnswered(i)
    BY <1>2 DEF HistoryAnswered
  <2>2. screen = "history"
    BY <2>1
  <2>3. UNCHANGED elsewhere
    BY <2>1 DEF PollAnswered, RowsArrive, SummaryArrives, InForceArrives, Acted, RowsFail, SummaryFails
  <2> QED
    BY <2>2, <2>3 DEF elsewhere
<1> QED
  BY <1>1, <1>2

LEMMA DialogBelongs ==
  ASSUME DialogNext \/ LinkAnswered \/ DialogAnswered
  PROVE  screen = "publish" /\ screen' = screen /\ polls' = polls
<1>1. CASE DialogNext
  BY <1>1 DEF DialogNext, FollowRunLink, ListRefreshed, SourceDoubted, RunEnds, OpenDialog, Acknowledge,
       GiveReason, Dismiss, Publish, beside
<1>2. CASE LinkAnswered \/ DialogAnswered
  BY <1>2 DEF LinkAnswered, DialogAnswered, LinkedArrives, LinkedFails, PublishServed, PublishAnswered,
       PublishLost, beside
<1> QED
  BY <1>1, <1>2

LEMMA EditorBelongs ==
  ASSUME EditorNext \/ EditorAnswered
  PROVE  screen = "editor" /\ screen' = screen /\ polls' = polls
<1>1. CASE EditorNext
  BY <1>1 DEF EditorNext, OpenVisit, SetWindow, AddMember, RemoveMember, ChooseDriver, CloseDrawer,
       TypeReason, Save, RemoveCrew, ToggleLock, Edited, away
<1>2. CASE EditorAnswered
  BY <1>2 DEF EditorAnswered, Loaded, CheckArrives, LoadFails, FreeArrives, AdviceFails, Saved, Removed,
       Refused, Toggled, away
<1> QED
  BY <1>1, <1>2

LEMMA DeskBelongs ==
  ASSUME DeskNext \/ DeskAnswered
  PROVE  screen = "desk" /\ screen' = screen /\ polls' = polls
<1>1. CASE DeskNext
  BY <1>1 DEF DeskNext, ToggleFinding, OthersRepair, Confirm, Refresh, LoadMore, AcknowledgeToday, BuildPlan,
       Apply, around
<1>2. CASE DeskAnswered
  BY <1>2 DEF DeskAnswered, Serve, ServeApply, FindingsArrive, FindingsFail, PlanArrives, PlanFails,
       ApplyArrives, ApplyFails, around
<1> QED
  BY <1>1, <1>2

\* Nothing but its own requests is on the wire of a screen that lists no rows.
LEMMA NoListFails ==
  ASSUME PortalInv, NEW c \in wire, ListFails(c) \/ ChangeRefused(c), screen \notin ListPages
  PROVE  screen = "queue" /\ ChangeRefused(c)
<1>1. c.kind \in {"rows", "crews", "change", "adjust", "generate"}
  BY DEF ListFails, ChangeRefused
<1>2. CASE screen = "queue"
  <2>1. c.kind \in {"queue", "visit", "change", "lock"}
    BY <1>2 DEF PortalInv, QueueInv, QueueCall
  <2> QED
    BY <1>2, <2>1 DEF ListFails
<1>3. CASE screen = "publish"
  <2>1. c.kind \in {"linked", "publish"}
    BY <1>3 DEF PortalInv, DialogInv, DialogCall
  <2> QED
    BY <1>1, <2>1
<1>4. CASE screen = "editor"
  <2>1. c.kind \in {"load", "reload", "save", "remove", "lock", "check", "free"}
    BY <1>4 DEF PortalInv, EditorInv, EditorCall, LoadKinds
  <2> QED
    BY <1>1, <2>1
<1>5. CASE screen = "desk"
  <2>1. c.kind \in {"findings", "more", "again", "plan", "apply"}
    BY <1>5 DEF PortalInv, DeskInv, DeskCall
  <2> QED
    BY <1>1, <2>1
<1> QED
  BY <1>2, <1>3, <1>4, <1>5 DEF PortalInv, Screens

LEMMA PortalSteps == PortalInv /\ [Next]_portal => PortalInv'
<1> SUFFICES ASSUME PortalInv, [Next]_portal PROVE PortalInv'
  OBVIOUS
<1> USE DEF ListPages
<1>1. CASE ListsNext \/ ListsAnswered
  <2>1. screen' = screen /\ polls' = polls /\ screen # "history"
    <3>1. screen = "history" => wire = {}
      BY DEF PortalInv
    <3> QED
      BY <1>1, <3>1, ListsBelong
  <2>2. CASE screen \in ListPages
    <3>1. ListInv(screen, lists', wire')
      BY <1>1, <2>2, ListStepKeeps DEF PortalInv
    <3> QED
      BY <2>1, <2>2, <3>1 DEF PortalInv
  <2>3. CASE screen = "walk"
    <3>1. WalkInv(lists', server') /\ wire' = {}
      BY <1>1, <2>3, WalkStepKeeps DEF PortalInv
    <3> QED
      BY <2>1, <2>3, <3>1 DEF PortalInv
  <2>4. CASE screen \notin ListPages \cup {"walk"}
    <3>1. PICK c \in wire : ListFails(c) \/ ChangeRefused(c)
      BY <1>1, <2>4, ListsBelong
    <3>2. screen = "queue" /\ ChangeRefused(c)
      BY <2>4, <3>1, NoListFails
    <3>3. QueueInv(lists', wire', server')
      BY <3>2, QueueStepKeeps DEF PortalInv
    <3> QED
      BY <2>1, <3>2, <3>3 DEF PortalInv
  <2> QED
    BY <2>2, <2>3, <2>4
<1>2. CASE QueueNext \/ QueueAnswered
  <2>1. screen = "queue" /\ screen' = screen /\ polls' = polls
    BY <1>2, QueueBelongs
  <2>2. QueueInv(lists', wire', server')
    BY <1>2, <2>1, QueueStepKeeps DEF PortalInv
  <2> QED
    BY <2>1, <2>2 DEF PortalInv
<1>3. CASE HistoryNext \/ HistoryAnswered
  <2>1. screen = "history" /\ screen' = screen /\ wire' = wire
    BY <1>3, HistoryBelongs DEF PortalInv
  <2>2. PagerInv(pager', polls')
    BY <1>3, <2>1, HistoryStepKeeps DEF PortalInv
  <2> QED
    BY <2>1, <2>2 DEF PortalInv
<1>4. CASE DialogNext \/ LinkAnswered \/ DialogAnswered
  <2>1. screen = "publish" /\ screen' = screen /\ polls' = polls
    BY <1>4, DialogBelongs
  <2>2. DialogInv(lists', wire', server')
    BY <1>4, <2>1, DialogStepKeeps DEF PortalInv
  <2> QED
    BY <2>1, <2>2 DEF PortalInv
<1>5. CASE EditorNext \/ EditorAnswered
  <2>1. screen = "editor" /\ screen' = screen /\ polls' = polls
    BY <1>5, EditorBelongs
  <2>2. EditorInv(editor', wire')
    BY <1>5, <2>1, EditorStepKeeps DEF PortalInv
  <2> QED
    BY <2>1, <2>2 DEF PortalInv
<1>6. CASE DeskNext \/ DeskAnswered
  <2>1. screen = "desk" /\ screen' = screen /\ polls' = polls
    BY <1>6, DeskBelongs
  <2>2. DeskInv(desk', wire', server')
    BY <1>6, <2>1, DeskStepKeeps DEF PortalInv
  <2> QED
    BY <2>1, <2>2 DEF PortalInv
<1>7. CASE UNCHANGED portal
  BY <1>7 DEF portal, PortalInv
<1> QED
  BY <1>1, <1>2, <1>3, <1>4, <1>5, <1>6, <1>7 DEF Next

\* Whichever screen is open: what is in flight is its own, and agrees with what it
\* shows as far as its fences, its keys and its flags are there to make it (the
\* inductive invariant of every screen of the portal).
THEOREM PortalHolds == Spec => []PortalInv
<1> QED
  BY PortalOpens, PortalSteps, PTL DEF Spec

LEMMA PortalShows == PortalInv => ScreensShowWhatIsAsked
<1> SUFFICES ASSUME PortalInv PROVE ScreensShowWhatIsAsked
  OBVIOUS
<1>1. /\ screen \in ListPages /\ ~lists.astray =>
           /\ ~lists.loading /\ ~lists.error /\ lists.rows # None => lists.rows = lists.of
           /\ screen = "dispatch" => lists.operations \in {None, lists.of}
      /\ screen \in {"agreements", "calendar"} => ~lists.astray
  BY DEF PortalInv, ListInv, RowsAgree, ScreensApart, ListPages
<1>2. QueueAnswersItsQuestion
  BY QueueShows DEF PortalInv
<1>3. PageIsShown /\ PanelKeepsOrder
  BY DEF PortalInv, PagerInv, PageIsShown, PanelKeepsOrder
<1>4. LinkIsShown
  <2>1. CASE screen = "publish"
    BY <2>1, DialogShows DEF PortalInv
  <2>2. CASE screen # "publish"
    BY <2>2 DEF LinkIsShown
  <2> QED
    BY <2>1, <2>2
<1> QED
  BY <1>1, <1>2, <1>3, <1>4 DEF ScreensShowWhatIsAsked

LEMMA PortalActs == PortalInv => ActsOnWhatIsShown
<1> SUFFICES ASSUME PortalInv PROVE ActsOnWhatIsShown
  OBVIOUS
<1>1. screen = "visits" /\ MayConfirm => lists.impact = lists.of
  BY DEF PortalInv, ListInv, ImpactAgrees, ListPages, MayConfirm
<1>2. DetailTellsTheLock
  BY QueueShows DEF PortalInv
<1>3. EditorShowsItsVisit /\ SavesWhatWasChecked /\ OffersWhoIsFree
  <2>1. CASE screen = "editor"
    <3>1. /\ editor \in EditorRow /\ LoadsAgree(editor, wire) /\ ChecksAgree(editor, wire)
          /\ FreeAgrees(editor, wire)
      BY <2>1 DEF PortalInv, EditorInv
    <3> QED
      BY <3>1 DEF EditorShowsItsVisit, SavesWhatWasChecked, OffersWhoIsFree, LoadsAgree, ChecksAgree, FreeAgrees, Savable
  <2>2. CASE screen # "editor"
    BY <2>2 DEF EditorShowsItsVisit, SavesWhatWasChecked, OffersWhoIsFree
  <2> QED
    BY <2>1, <2>2
<1>4. PublishesWhatWasSigned
  <2>1. CASE screen = "publish"
    BY <2>1, DialogShows DEF PortalInv
  <2>2. CASE screen # "publish"
    BY <2>2 DEF PublishesWhatWasSigned
  <2> QED
    BY <2>1, <2>2
<1>5. StaleMeansNotApplied /\ TodayIsAcknowledged
  <2>1. CASE screen = "desk"
    BY <2>1, DeskShows DEF PortalInv
  <2>2. CASE screen # "desk"
    BY <2>2 DEF StaleMeansNotApplied, TodayIsAcknowledged
  <2> QED
    BY <2>1, <2>2
<1>6. screen = "walk" /\ lists.done = "all" /\ lists.gone = {} => lists.got = server
  BY DEF PortalInv, WalkInv
<1> QED
  BY <1>1, <1>2, <1>3, <1>4, <1>5, <1>6 DEF ActsOnWhatIsShown

\* A screen at rest shows the answer to what it asks: no filter, page, link or date
\* is left with the rows of another, however many answers come late, out of order or
\* not at all (the load fences of the pages, loadSummary, focusNotFound).
THEOREM ScreensAlwaysAnswer == Spec => []ScreensShowWhatIsAsked
<1> QED
  BY PortalHolds, PortalShows, PTL

\* What is confirmed, saved, published, repaired or offered is what is on show: the
\* impact previewed, the crew checked, the doubts ticked for that run, the plan
\* reviewed under its own key (the drawers' confirm and save, confirmPublish, handleApply).
THEOREM ActsAreOnWhatIsShown == Spec => []ActsOnWhatIsShown
<1> QED
  BY PortalHolds, PortalActs, PTL

=============================================================================
