---------------------------- MODULE PipelineProofs ----------------------------
(***************************************************************************)
(* What a command promises, proved for all sources, commands and files.    *)
(* PhaseInv says, of each phase, which of the files asked for have been    *)
(* written by this command, what can have been printed, and what the       *)
(* phases before must have decided for this one to run at all.  ContentInv *)
(* says what the files and the memory hold, and, where nothing was lost on *)
(* the way, that it is the source's: it rests on what the readers make of  *)
(* each line that was written, which is a matter of the operators alone.   *)
(***************************************************************************)
EXTENDS Pipeline, Induction, SequenceTheorems, FiniteSetTheorems, TLAPS

Kinds == {"none", "tokens", "tree", "ast", "bundle", "trace"}

(* This command wrote the file, if one was named.                          *)
Wrote(f) == f = NoName \/ disk[f].by = count

TypeInv ==
  /\ PipelineTypeOK
  /\ disk = [f \in FileNames |-> disk[f]]
  /\ clean \in BOOLEAN
  /\ phase # "idle" => options \in Options

FromTokens == options.mode \in {"source", "tokens"}

Late == {"analyse", "report", "generate", "run"}

(* The phases of a running command, and what is settled in each.           *)
PhaseInv ==
  /\ phase \in {"lexed", "traced"} => options.mode = "source"
  /\ phase \in {"tokens", "parse"} => FromTokens
  /\ phase \in {"traced", "tokens", "parse", "tree"} \cup Late /\ options.mode = "source" =>
       Wrote(options.trace)
  /\ phase \in {"parse", "tree"} \cup Late /\ FromTokens => Wrote(options.saveTokens)
  /\ phase \in Late => Wrote(options.saveTree) /\ options.stop # "parse"
  /\ phase \in {"parse", "tree"} \cup Late => options.stop # "lex"
  /\ phase \in {"generate", "run"} =>
       /\ Wrote(options.saveAst)
       /\ outcome \in Verdicts \ {"faulty"}
       /\ options.tac \/ options.run
  /\ phase = "run" => ~ options.tac /\ outcome # "untranslatable"
  /\ phase = "report" => outcome \in Verdicts /\ (options.verbose => "ast" \in printed)
  /\ phase \notin {"idle", "exited"} => printed \cap {"tac", "output"} = {} /\ why = "none"
  /\ phase \notin {"idle", "exited"} /\ options.stop = "lex" => options.mode = "source"

IInv == TypeInv /\ PhaseInv /\ DoneAsAsked

-----------------------------------------------------------------------------
LEMMA SaveWrites ==
  ASSUME TypeInv, count' = count, NEW n \in FileNames \cup {NoName}, NEW kind \in Kinds, NEW of,
         Save(n, kind, of)
  PROVE  /\ disk' = [f \in FileNames |-> disk'[f]]
         /\ \A f \in FileNames : /\ disk'[f].kind \in Kinds /\ disk'[f].by \in 0 .. count
                                 /\ disk'[f].clean \in BOOLEAN
         /\ \A f \in FileNames \cup {NoName} : Wrote(f) => Wrote(f)'
         /\ Wrote(n)'
<1> DEFINE r == [kind |-> kind, of |-> of, ast |-> ast, by |-> count, clean |-> clean]
<1>1. r.kind \in Kinds /\ r.by = count /\ r.clean \in BOOLEAN
  BY DEF TypeInv
<1>2. \A f \in FileNames : /\ disk[f].kind \in Kinds /\ disk[f].by \in 0 .. count
                           /\ disk[f].clean \in BOOLEAN
  BY DEF TypeInv, PipelineTypeOK, Kinds
<1>3. count \in 0 .. MaxCommands
  BY DEF TypeInv, PipelineTypeOK
<1>4. CASE n = NoName
  BY <1>2, <1>4 DEF Save, Wrote, TypeInv
<1>5. CASE n # NoName
  <2>1. n \in FileNames /\ disk' = [disk EXCEPT ![n] = r]
    BY <1>5 DEF Save, Store
  <2>2. disk = [f \in FileNames |-> disk[f]]
    BY DEF TypeInv
  <2> HIDE DEF r
  <2>3. disk' = [f \in FileNames |-> IF f = n THEN r ELSE disk[f]]
    BY <2>1, <2>2
  <2>4. \A f \in FileNames : disk'[f] = IF f = n THEN r ELSE disk[f]
    BY <2>3
  <2>5. count \in 0 .. count
    BY <1>3, CommandsAssumption
  <2> QED
    BY <1>1, <1>2, <2>1, <2>3, <2>4, <2>5 DEF Wrote
<1> QED
  BY <1>4, <1>5

LEMMA OptionTypes ==
  ASSUME TypeInv, phase # "idle"
  PROVE  /\ options.trace \in FileNames \cup {NoName}
         /\ options.saveTokens \in FileNames \cup {NoName}
         /\ options.saveTree \in FileNames \cup {NoName}
         /\ options.saveAst \in FileNames \cup {NoName}
         /\ options.mode \in {"source", "tokens", "tree", "bundle"}
         /\ options.stop \in {"none", "lex", "parse"}
         /\ options.tac \in BOOLEAN /\ options.run \in BOOLEAN
BY DEF TypeInv, Options

(* What a step of a running command leaves of the files.                   *)
DiskKept ==
  /\ count' = count /\ options' = options /\ source' = source
  /\ disk' = [f \in FileNames |-> disk'[f]]
  /\ \A f \in FileNames : /\ disk'[f].kind \in Kinds /\ disk'[f].by \in 0 .. count
                          /\ disk'[f].clean \in BOOLEAN
  /\ \A f \in FileNames \cup {NoName} : Wrote(f) => Wrote(f)'

LEMMA DiskUnchanged ==
  ASSUME TypeInv, UNCHANGED << count, options, source, disk >>
  PROVE  DiskKept
BY DEF TypeInv, PipelineTypeOK, DiskKept, Wrote, Kinds

LEMMA DiskSaved ==
  ASSUME TypeInv, UNCHANGED << count, options, source >>, NEW n \in FileNames \cup {NoName},
         NEW kind \in Kinds, NEW of, Save(n, kind, of)
  PROVE  DiskKept /\ Wrote(n)'
BY SaveWrites DEF DiskKept

LEMMA DiskStep == TypeInv /\ PipelineStep => DiskKept
<1> SUFFICES ASSUME TypeInv, PipelineStep PROVE DiskKept
  OBVIOUS
<1> USE DiskUnchanged
<1>0. phase # "idle"
  BY DEF PipelineStep, Lex, RefuseTrace, ReadTokens, ReadTree, SaveTrace, ReportLexErrors, PassLexer,
     SaveTokens, Parse, SaveTree, Analyse, Report, Generate, Run
<1>1. CASE Lex BY <1>1 DEF Lex
<1>2. CASE RefuseTrace BY <1>2 DEF RefuseTrace, Kept
<1>3. CASE ReadTokens BY <1>3 DEF ReadTokens
<1>4. CASE ReadTree BY <1>4 DEF ReadTree
<1>5. CASE SaveTrace
  BY <1>0, <1>5, DiskSaved, OptionTypes DEF SaveTrace, CannotWrite, Kept, Kinds
<1>6. CASE ReportLexErrors
  BY <1>0, <1>6, DiskSaved, OptionTypes DEF ReportLexErrors, Kept, Kinds
<1>7. CASE PassLexer BY <1>7 DEF PassLexer, Kept
<1>8. CASE SaveTokens
  BY <1>0, <1>8, DiskSaved, OptionTypes DEF SaveTokens, CannotWrite, Kept, Kinds
<1>9. CASE Parse BY <1>9 DEF Parse
<1>10. CASE SaveTree
  BY <1>0, <1>10, DiskSaved, OptionTypes DEF SaveTree, CannotWrite, Kept, Kinds
<1>11. CASE Analyse BY <1>11 DEF Analyse
<1>12. CASE Report
  BY <1>0, <1>12, DiskSaved, OptionTypes DEF Report, CannotWrite, Kept, Kinds
<1>13. CASE Generate BY <1>13 DEF Generate, Kept
<1>14. CASE Run BY <1>14 DEF Run, Kept
<1> QED
  BY <1>1, <1>2, <1>3, <1>4, <1>5, <1>6, <1>7, <1>8, <1>9, <1>10, <1>11, <1>12, <1>13, <1>14
  DEF PipelineStep

-----------------------------------------------------------------------------
LEMMA TypeInit == PipelineInit => TypeInv
<1> SUFFICES ASSUME PipelineInit PROVE TypeInv
  OBVIOUS
<1>1. disk = [f \in FileNames |-> NoFile]
  BY DEF PipelineInit
<1>2. 0 \in 0 .. MaxCommands /\ 0 \in 0 .. 0
  BY CommandsAssumption
<1>3. \A f \in FileNames : disk[f] = NoFile
  BY <1>1
<1>4. NoFile.kind = "none" /\ NoFile.by = 0 /\ NoFile.clean = TRUE
  BY DEF NoFile
<1>5. disk = [f \in FileNames |-> disk[f]]
  BY <1>1, <1>3
<1>6. \A f \in FileNames : disk[f].kind = "none" /\ disk[f].by \in 0 .. count
                                                 /\ disk[f].clean \in BOOLEAN
  BY <1>2, <1>3, <1>4 DEF PipelineInit
<1>7. clean \in BOOLEAN /\ phase = "idle"
  BY DEF PipelineInit
<1>8. exit = 0 /\ outcome = "none" /\ count = 0 /\ source \in Sources
  BY DEF PipelineInit
<1>9. PipelineTypeOK
  <2>1. exit = -1 <=> phase \notin {"idle", "exited"}
    BY <1>7, <1>8
  <2> QED
    BY <2>1, <1>2, <1>6, <1>7, <1>8 DEF PipelineTypeOK
<1> QED
  BY <1>5, <1>7, <1>9 DEF TypeInv

LEMMA ResolvedTypes ==
  ASSUME NEW o \in Commands
  PROVE  Resolved(o) \in Options /\ Resolved(o).mode = o.mode /\ Resolved(o).stop = o.stop
<1>1. o \in Options
  BY CommandsAssumption
<1>2. \A n \in FileNames \cup {NoName} :
        /\ [o EXCEPT !.saveTokens = n] \in Options /\ [o EXCEPT !.saveTokens = n].mode = o.mode
        /\ [o EXCEPT !.saveTokens = n].stop = o.stop
        /\ [o EXCEPT !.saveTree = n] \in Options /\ [o EXCEPT !.saveTree = n].mode = o.mode
        /\ [o EXCEPT !.saveTree = n].stop = o.stop
        /\ [o EXCEPT !.saveAst = n] \in Options /\ [o EXCEPT !.saveAst = n].mode = o.mode
        /\ [o EXCEPT !.saveAst = n].stop = o.stop
  BY <1>1 DEF Options
<1>3. o.output \in FileNames \cup {NoName}
  BY <1>1 DEF Options
<1> QED
  BY <1>1, <1>2, <1>3 DEF Resolved

LEMMA OutcomesKnown == OutcomesOf(tree) \subseteq Outcomes
BY SourcesAssumption DEF OutcomesOf, Outcomes, SourceTree, Known

(* What a step of a running command does to the other variables.           *)
RestTyped ==
  /\ \/ phase' \in {"lexed", "traced", "tokens", "parse", "tree"} \cup Late /\ exit' = exit
     \/ phase' = "exited" /\ exit' \in {0, 1}
  /\ outcome' \in Outcomes \cup {"none"}
  /\ clean' \in BOOLEAN

LEMMA RestStep == TypeInv /\ PipelineStep => RestTyped /\ phase \notin {"idle", "exited"}
<1> SUFFICES ASSUME TypeInv, PipelineStep PROVE RestTyped /\ phase \notin {"idle", "exited"}
  OBVIOUS
<1>0. outcome \in Outcomes \cup {"none"} /\ clean \in BOOLEAN
  BY DEF TypeInv, PipelineTypeOK
<1> USE <1>0 DEF RestTyped, Late, Finish, Continue, CannotWrite, Kept, memory
<1>1. CASE Lex BY <1>1 DEF Lex
<1>2. CASE RefuseTrace BY <1>2 DEF RefuseTrace
<1>3. CASE ReadTokens BY <1>3 DEF ReadTokens
<1>4. CASE ReadTree BY <1>4 DEF ReadTree
<1>5. CASE SaveTrace BY <1>5 DEF SaveTrace
<1>6. CASE ReportLexErrors BY <1>6 DEF ReportLexErrors
<1>7. CASE PassLexer BY <1>7 DEF PassLexer
<1>8. CASE SaveTokens BY <1>8 DEF SaveTokens
<1>9. CASE Parse BY <1>9 DEF Parse
<1>10. CASE SaveTree BY <1>10 DEF SaveTree
<1>11. CASE Analyse BY <1>11, OutcomesKnown DEF Analyse
<1>12. CASE Report BY <1>12 DEF Report
<1>13. CASE Generate BY <1>13 DEF Generate
<1>14. CASE Run BY <1>14 DEF Run
<1> QED
  BY <1>1, <1>2, <1>3, <1>4, <1>5, <1>6, <1>7, <1>8, <1>9, <1>10, <1>11, <1>12, <1>13, <1>14
  DEF PipelineStep

LEMMA TypeStep == TypeInv /\ [PipelineNext]_pipelineVars => TypeInv'
<1> SUFFICES ASSUME TypeInv, [PipelineNext]_pipelineVars PROVE TypeInv'
  OBVIOUS
<1>1. CASE PipelineStep
  <2>1. DiskKept /\ RestTyped /\ phase \notin {"idle", "exited"}
    BY <1>1, DiskStep, RestStep
  <2> QED
    BY <2>1 DEF TypeInv, PipelineTypeOK, DiskKept, RestTyped, Kinds, Late
<1>2. ASSUME NEW o \in Commands, Start(o) PROVE TypeInv'
  <2>1. options' \in Options
    BY <1>2, ResolvedTypes DEF Start
  <2>2. count' \in 0 .. MaxCommands /\ \A f \in FileNames : disk'[f].by \in 0 .. count'
    BY <1>2, CommandsAssumption DEF Start, TypeInv, PipelineTypeOK
  <2> QED
    BY <1>2, <2>1, <2>2 DEF Start, Finish, TypeInv, PipelineTypeOK
<1>3. CASE UNCHANGED pipelineVars
  BY <1>3 DEF pipelineVars, memory, TypeInv, PipelineTypeOK
<1> QED
  BY <1>1, <1>2, <1>3 DEF PipelineNext

(* Every state has the types of its variables: whatever the files hold and *)
(* whatever is asked, a command is in one phase, and has a status exactly  *)
(* when it has ended.                                                      *)
THEOREM PipelineTypes == PipelineSpec => []PipelineTypeOK
<1>1. TypeInv => PipelineTypeOK
  BY DEF TypeInv
<1> QED
  BY <1>1, TypeInit, TypeStep, PTL DEF PipelineSpec

-----------------------------------------------------------------------------
(* A phase that saves a file goes on only with the file written.           *)
LEMMA GoesOnWritten ==
  ASSUME TypeInv, PipelineStep
  PROVE  /\ SaveTrace /\ phase' # "exited" => Wrote(options.trace)'
         /\ SaveTokens /\ why' # "write" => Wrote(options.saveTokens)'
         /\ SaveTree /\ why' # "write" => Wrote(options.saveTree)'
         /\ Report /\ why' # "write" => Wrote(options.saveAst)'
<1>0. phase # "idle" /\ options' = options
  BY RestStep, DiskStep DEF DiskKept
<1> USE <1>0, DiskSaved, OptionTypes DEF CannotWrite, Finish, Kept, Kinds, Wrote
<1>1. SaveTrace /\ phase' # "exited" => Wrote(options.trace)'
  BY DEF SaveTrace
<1>2. SaveTokens /\ why' # "write" => Wrote(options.saveTokens)'
  BY DEF SaveTokens
<1>3. SaveTree /\ why' # "write" => Wrote(options.saveTree)'
  BY DEF SaveTree
<1>4. Report /\ why' # "write" => Wrote(options.saveAst)'
  BY DEF Report
<1> QED
  BY <1>1, <1>2, <1>3, <1>4

LEMMA PhaseStep == TypeInv /\ PhaseInv /\ PipelineStep => PhaseInv'
<1> SUFFICES ASSUME TypeInv, PhaseInv, PipelineStep PROVE PhaseInv'
  OBVIOUS
<1>0. /\ options' = options
      /\ options.trace \in FileNames \cup {NoName} /\ options.saveTokens \in FileNames \cup {NoName}
      /\ options.saveTree \in FileNames \cup {NoName}
      /\ options.saveAst \in FileNames \cup {NoName}
      /\ options.mode \in {"source", "tokens", "tree", "bundle"}
      /\ \A f \in FileNames \cup {NoName} : Wrote(f) => Wrote(f)'
  BY RestStep, DiskStep, OptionTypes DEF DiskKept
<1>w. /\ Wrote(options.trace) => Wrote(options.trace)'
      /\ Wrote(options.saveTokens) => Wrote(options.saveTokens)'
      /\ Wrote(options.saveTree) => Wrote(options.saveTree)'
      /\ Wrote(options.saveAst) => Wrote(options.saveAst)'
  BY <1>0 DEF Wrote
<1>1. CASE Lex
  BY <1>0, <1>w, <1>1 DEF Lex, PhaseInv, FromTokens, Late, Finish, Continue,
      Show, CannotWrite, Kept, memory
<1>2. CASE RefuseTrace
  BY <1>0, <1>w, <1>2 DEF RefuseTrace, PhaseInv, FromTokens, Late, Finish, Continue,
      Show, CannotWrite, Kept, memory
<1>3. CASE ReadTokens
  BY <1>0, <1>w, <1>3 DEF ReadTokens, PhaseInv, FromTokens, Late, Finish, Continue,
      Show, CannotWrite, Kept, memory
<1>4. CASE ReadTree
  BY <1>0, <1>w, <1>4 DEF ReadTree, PhaseInv, FromTokens, Late, Finish, Continue,
      Show, CannotWrite, Kept, memory
<1>5. CASE SaveTrace
  BY <1>0, <1>w, <1>5, GoesOnWritten DEF SaveTrace, PhaseInv, FromTokens, Late, Finish, Continue,
      Show, CannotWrite, Kept, memory
<1>6. CASE ReportLexErrors
  BY <1>0, <1>w, <1>6 DEF ReportLexErrors, PhaseInv, FromTokens, Late, Finish, Continue,
      Show, CannotWrite, Kept, memory
<1>7. CASE PassLexer
  BY <1>0, <1>w, <1>7 DEF PassLexer, PhaseInv, FromTokens, Late, Finish, Continue,
      Show, CannotWrite, Kept, memory
<1>8. CASE SaveTokens
  BY <1>0, <1>w, <1>8, GoesOnWritten DEF SaveTokens, PhaseInv, FromTokens, Late, Finish, Continue,
      Show, CannotWrite, Kept, memory
<1>9. CASE Parse
  BY <1>0, <1>w, <1>9 DEF Parse, PhaseInv, FromTokens, Late, Finish, Continue,
      Show, CannotWrite, Kept, memory
<1>10. CASE SaveTree
  BY <1>0, <1>w, <1>10, GoesOnWritten DEF SaveTree, PhaseInv, FromTokens, Late, Finish, Continue,
      Show, CannotWrite, Kept, memory
<1>11. CASE Analyse
  BY <1>0, <1>w, <1>11, OutcomesKnown DEF Analyse, PhaseInv, FromTokens, Late, Finish,
      Continue, Show, CannotWrite, Kept, memory, Verdicts, Outcomes
<1>12. CASE Report
  BY <1>0, <1>w, <1>12, GoesOnWritten DEF Report, PhaseInv, FromTokens, Late, Finish,
      Continue, Show, CannotWrite, Kept, memory, Verdicts, Outcomes
<1>13. CASE Generate
  BY <1>0, <1>w, <1>13 DEF Generate, PhaseInv, FromTokens, Late, Finish,
      Continue, Show, CannotWrite, Kept, memory, Verdicts, Outcomes
<1>14. CASE Run
  BY <1>0, <1>w, <1>14 DEF Run, PhaseInv, FromTokens, Late, Finish, Continue,
      Show, CannotWrite, Kept, memory
<1> QED
  BY <1>1, <1>2, <1>3, <1>4, <1>5, <1>6, <1>7, <1>8, <1>9, <1>10, <1>11, <1>12, <1>13, <1>14 DEF PipelineStep

LEMMA PhaseStart ==
  ASSUME TypeInv, NEW o \in Commands, Start(o)
  PROVE  PhaseInv' /\ DoneAsAsked'
<1>1. options'.mode = o.mode /\ options'.stop = o.stop
  BY ResolvedTypes DEF Start
<1>2. CASE IsRefused(o)
  BY <1>2 DEF Start, Finish, PhaseInv, Late, DoneAsAsked
<1>3. CASE ~ IsRefused(o)
  BY <1>1, <1>3 DEF Start, IsRefused, PhaseInv, Late, DoneAsAsked
<1> QED
  BY <1>2, <1>3

-----------------------------------------------------------------------------
(* A command that has come past the parser and has saved its AST has       *)
(* written every file it was asked for.                                    *)
LEMMA AllWritten ==
  ASSUME TypeInv, PhaseInv, DiskKept, phase \in {"report", "generate", "run"},
         Wrote(options.saveAst)'
  PROVE  \A f \in AskedFiles' \ {NoName} : disk'[f].by = count'
<1>1. /\ options' = options
      /\ options.trace \in FileNames \cup {NoName} /\ options.saveTokens \in FileNames \cup {NoName}
      /\ options.saveTree \in FileNames \cup {NoName}
  BY OptionTypes DEF DiskKept
<1>2. /\ Wrote(options.saveTree)
      /\ FromTokens => Wrote(options.saveTokens)
      /\ options.mode = "source" => Wrote(options.trace)
  BY DEF PhaseInv, Late
<1>3. /\ Wrote(options.saveTree)'
      /\ FromTokens => Wrote(options.saveTokens)'
      /\ options.mode = "source" => Wrote(options.trace)'
  BY <1>1, <1>2 DEF DiskKept, Wrote
<1> QED
  BY <1>1, <1>3 DEF AskedFiles, FromTokens, Wrote

LEMMA DoneStep == TypeInv /\ PhaseInv /\ PipelineStep => DoneAsAsked'
<1> SUFFICES ASSUME TypeInv, PhaseInv, PipelineStep PROVE DoneAsAsked'
  OBVIOUS
<1>0. /\ options' = options /\ DiskKept /\ why = "none"
      /\ printed \cap {"tac", "output"} = {}
      /\ options.tac \in BOOLEAN /\ options.run \in BOOLEAN
  BY RestStep, DiskStep, OptionTypes DEF DiskKept, PhaseInv
<1> USE <1>0 DEF DoneAsAsked, Finish, Continue, CannotWrite, Show, Kept, memory
<1>1. CASE Lex
  BY <1>1 DEF Lex
<1>2. CASE RefuseTrace
  BY <1>2 DEF RefuseTrace
<1>3. CASE ReadTokens
  BY <1>3 DEF ReadTokens
<1>4. CASE ReadTree
  BY <1>4 DEF ReadTree
<1>5. CASE SaveTrace
  BY <1>5 DEF SaveTrace, PhaseInv
<1>6. CASE ReportLexErrors
  BY <1>6 DEF ReportLexErrors
<1>7. CASE PassLexer
  BY <1>7 DEF PassLexer
<1>8. CASE SaveTokens
  BY <1>8 DEF SaveTokens, PhaseInv
<1>9. CASE Parse
  BY <1>9 DEF Parse
<1>10. CASE SaveTree
  BY <1>10 DEF SaveTree, PhaseInv
<1>11. CASE Analyse
  BY <1>11 DEF Analyse
<1>12. CASE Report
  <2>1. why' # "write" => Wrote(options.saveAst)'
    BY <1>12, GoesOnWritten
  <2>2. /\ phase = "report" /\ outcome \in Verdicts /\ outcome' = outcome
        /\ options.verbose => "ast" \in printed
    BY <1>12 DEF Report, PhaseInv
  <2>3. why' # "write" => \A f \in AskedFiles' \ {NoName} : disk'[f].by = count'
    BY <2>1, <2>2, AllWritten
  <2>4. printed' \cap {"tac", "output"} = {}
    BY <1>12 DEF Report
  <2>5. why' = "semantic" => IF options'.saveAst = NoName THEN "ast" \in printed'
                            ELSE disk'[options'.saveAst].by = count'
    BY <1>12, <2>1, <2>2 DEF Report, Wrote
  <2>6. phase' = "exited" /\ exit' = 0 =>
          /\ why' # "write" /\ outcome' \in Verdicts \ {"faulty"}
          /\ ~ options.tac /\ ~ options.run
    BY <1>12, <2>2 DEF Report, Verdicts
  <2> QED
    BY <2>3, <2>4, <2>5, <2>6
<1>13. CASE Generate
  <2>1. \A f \in AskedFiles' \ {NoName} : disk'[f].by = count'
    BY <1>13, AllWritten DEF Generate, PhaseInv, DiskKept, Wrote
  <2> QED
    BY <1>13, <2>1 DEF Generate, PhaseInv
<1>14. CASE Run
  <2>1. \A f \in AskedFiles' \ {NoName} : disk'[f].by = count'
    BY <1>14, AllWritten DEF Run, PhaseInv, DiskKept, Wrote
  <2>2. /\ outcome \in Verdicts \ {"faulty"} /\ outcome # "untranslatable" /\ outcome # "endless"
        /\ ~ options.tac /\ options.run
    BY <1>14 DEF Run, PhaseInv
  <2>3. outcome # "failing" => outcome = "fine"
    BY <2>2 DEF Verdicts
  <2>4. why' # "semantic" /\ outcome' = outcome
    BY <1>14 DEF Run
  <2> QED
    BY <1>14, <2>1, <2>2, <2>3, <2>4 DEF Run
<1> QED
  BY <1>1, <1>2, <1>3, <1>4, <1>5, <1>6, <1>7, <1>8, <1>9, <1>10, <1>11, <1>12, <1>13, <1>14
  DEF PipelineStep

-----------------------------------------------------------------------------
LEMMA PromiseInit == PipelineInit => PhaseInv /\ DoneAsAsked
BY DEF PipelineInit, PhaseInv, Late, DoneAsAsked

LEMMA PromiseStep == IInv /\ [PipelineNext]_pipelineVars => IInv'
<1> SUFFICES ASSUME IInv, [PipelineNext]_pipelineVars PROVE PhaseInv' /\ DoneAsAsked'
  BY TypeStep DEF IInv
<1>1. CASE PipelineStep
  BY <1>1, PhaseStep, DoneStep DEF IInv
<1>2. ASSUME NEW o \in Commands, Start(o) PROVE PhaseInv' /\ DoneAsAsked'
  BY <1>2, PhaseStart DEF IInv
<1>3. CASE UNCHANGED pipelineVars
  <2>1. PhaseInv'
    BY <1>3 DEF IInv, pipelineVars, memory, PhaseInv, FromTokens, Wrote
  <2>2. DoneAsAsked'
    BY <1>3 DEF IInv, pipelineVars, memory, DoneAsAsked, AskedFiles
  <2> QED
    BY <2>1, <2>2
<1> QED
  BY <1>1, <1>2, <1>3 DEF PipelineNext

(* A command that succeeds has done all that was asked: every file named   *)
(* was written by it, through whichever phases its input passed, and the   *)
(* program it translated or ran had no semantic errors; one that fails     *)
(* prints neither code nor output, and leaves the AST it complains of.     *)
THEOREM Promises == PipelineSpec => []DoneAsAsked
<1>1. PipelineInit => IInv
  BY TypeInit, PromiseInit DEF IInv
<1>2. IInv => DoneAsAsked
  BY DEF IInv
<1> QED
  BY <1>1, <1>2, PromiseStep, PTL DEF PipelineSpec

-----------------------------------------------------------------------------
(* The recursion of Those.                                                 *)
ThoseRuns(s, kept, g) ==
  g = [n \in 0 .. Len(s) |->
         IF n = 0 THEN << >> ELSE IF n \in kept THEN Append(g[n - 1], s[n]) ELSE g[n - 1]]

(* g[n] are those of the first n elements.                                 *)
ThosePrefixes(S, s, kept, g) ==
  /\ g[0] = << >>
  /\ \A n \in 1 .. Len(s) : /\ g[n] = IF n \in kept THEN Append(g[n - 1], s[n]) ELSE g[n - 1]
                            /\ g[n] \in Seq(S)
  /\ Those(s, kept) = g[Len(s)]

LEMMA ThoseDef ==
  ASSUME NEW S, NEW s \in Seq(S), NEW kept
  PROVE  \E g : ThosePrefixes(S, s, kept, g)
<1> DEFINE m == Len(s)
           step == [n \in 1 .. m |-> [x \in Seq(S) |-> IF n \in kept THEN Append(x, s[n]) ELSE x]]
           g == CHOOSE f : ThoseRuns(s, kept, f)
<1>1. m \in Nat /\ << >> \in Seq(S)
  OBVIOUS
<1>2. \A n \in 1 .. m, x \in Seq(S) :
        /\ (IF n \in kept THEN Append(x, s[n]) ELSE x) \in Seq(S)
        /\ step[n][x] = IF n \in kept THEN Append(x, s[n]) ELSE x
  OBVIOUS
<1>3. step \in [1 .. m -> [Seq(S) -> Seq(S)]]
  BY <1>2
<1>4. \E f : ThoseRuns(s, kept, f)
  <2> HIDE DEF step, m
  <2>1. PICK f \in [0 .. m -> Seq(S)] : Unfolds(f, m, << >>, step)
    BY <1>1, <1>3, UnfoldingExists DEF CanUnfold
  <2>2. f = [n \in 0 .. m |-> f[n]]
    BY <2>1
  <2>3. \A n \in 0 .. m : f[n] = IF n = 0 THEN << >> ELSE step[n][f[n - 1]]
    BY <2>1 DEF Unfolds
  <2>4. ASSUME NEW n \in 0 .. m, n # 0
        PROVE  step[n][f[n - 1]] = IF n \in kept THEN Append(f[n - 1], s[n]) ELSE f[n - 1]
    <3>1. n \in 1 .. m /\ f[n - 1] \in Seq(S)
      BY <1>1, <2>4
    <3> QED
      BY <1>2, <3>1
  <2>5. \A n \in 0 .. m :
          f[n] = IF n = 0 THEN << >> ELSE IF n \in kept THEN Append(f[n - 1], s[n]) ELSE f[n - 1]
    BY <2>3, <2>4
  <2> QED
    BY <2>2, <2>5 DEF ThoseRuns, m
<1>5. ThoseRuns(s, kept, g)
  BY <1>4
<1>6. Those(s, kept) = g[m]
  BY DEF Those, ThoseRuns
<1> HIDE DEF g, step
<1>7. \A n \in 0 .. m :
        g[n] = IF n = 0 THEN << >> ELSE IF n \in kept THEN Append(g[n - 1], s[n]) ELSE g[n - 1]
  BY <1>5 DEF ThoseRuns
<1> DEFINE T == {n \in 0 .. m : g[n] \in Seq(S)}
<1>8. 0 \in T
  <2>1. 0 \in 0 .. m
    BY <1>1
  <2>2. g[0] = << >>
    BY <1>7, <2>1
  <2> QED
    BY <1>1, <2>1, <2>2
<1>9. ASSUME NEW n \in 0 .. m - 1, n \in T PROVE n + 1 \in T
  <2>1. n + 1 \in 0 .. m /\ (n + 1) - 1 = n /\ s[n + 1] \in S /\ g[n] \in Seq(S) /\ n + 1 # 0
    BY <1>1, <1>9
  <2>2. g[n + 1] = IF n + 1 \in kept THEN Append(g[n], s[n + 1]) ELSE g[n]
    BY <1>7, <2>1
  <2>3. Append(g[n], s[n + 1]) \in Seq(S)
    BY <2>1
  <2>4. g[n + 1] \in Seq(S)
    BY <2>1, <2>2, <2>3
  <2> QED
    BY <2>1, <2>4
<1>10. \A n \in 0 .. m : n \in T
  <2>1. \A n \in 0 .. m - 1 : n \in T => n + 1 \in T
    BY <1>9
  <2> HIDE DEF T, m
  <2> QED
    BY <1>1, <1>8, <2>1, NumbersUpTo
<1>11. \A n \in 1 .. m :
         /\ g[n] = IF n \in kept THEN Append(g[n - 1], s[n]) ELSE g[n - 1]
         /\ g[n] \in Seq(S)
  BY <1>1, <1>7, <1>10
<1> QED
  BY <1>1, <1>6, <1>7, <1>11 DEF ThosePrefixes

(* All of a sequence is the sequence.                                      *)
LEMMA ThoseAll ==
  ASSUME NEW S, NEW s \in Seq(S), NEW kept, 1 .. Len(s) \subseteq kept
  PROVE  Those(s, kept) = s
<1> DEFINE m == Len(s)
<1>0. PICK g : ThosePrefixes(S, s, kept, g)
  BY ThoseDef
<1> DEFINE T == {n \in 0 .. m : /\ g[n] \in Seq(S) /\ Len(g[n]) = n
                                /\ \A k \in 1 .. n : g[n][k] = s[k]}
<1>1. /\ m \in Nat /\ g[0] = << >> /\ << >> \in Seq(S) /\ Len(<< >>) = 0
      /\ \A n \in 1 .. m : /\ g[n] = IF n \in kept THEN Append(g[n - 1], s[n]) ELSE g[n - 1]
                           /\ g[n] \in Seq(S)
  BY <1>0 DEF ThosePrefixes
<1>2. 0 \in T
  <2>1. 0 \in 0 .. m /\ g[0] \in Seq(S) /\ Len(g[0]) = 0
    BY <1>1
  <2> QED
    BY <2>1
<1>3. ASSUME NEW n \in 0 .. m - 1, n \in T PROVE n + 1 \in T
  <2>1. n + 1 \in 1 .. m /\ (n + 1) - 1 = n /\ n + 1 \in kept /\ s[n + 1] \in S
    BY <1>1
  <2>2. g[n + 1] = Append(g[n], s[n + 1]) /\ g[n + 1] \in Seq(S)
    BY <1>1, <2>1
  <2>3. g[n] \in Seq(S) /\ Len(g[n]) = n /\ \A k \in 1 .. n : g[n][k] = s[k]
    BY <1>3
  <2>4. Len(g[n + 1]) = n + 1 /\ g[n + 1][n + 1] = s[n + 1] /\ \A k \in 1 .. n : g[n + 1][k] = g[n][k]
    BY <2>1, <2>2, <2>3, AppendProperties
  <2>5. \A k \in 1 .. n + 1 : k = n + 1 \/ k \in 1 .. n
    OBVIOUS
  <2>6. \A k \in 1 .. n + 1 : g[n + 1][k] = s[k]
    BY <2>3, <2>4, <2>5
  <2>7. n + 1 \in 0 .. m
    BY <2>1
  <2> QED
    BY <2>2, <2>4, <2>6, <2>7
<1>4. m \in T
  <2>1. \A n \in 0 .. m - 1 : n \in T => n + 1 \in T
    BY <1>3
  <2>2. m \in Nat /\ m \in 0 .. m
    BY <1>1
  <2> HIDE DEF T, m
  <2>3. \A n \in 0 .. m : n \in T
    BY <1>2, <2>1, <2>2, NumbersUpTo
  <2> QED
    BY <2>2, <2>3
<1> QED
  BY <1>0, <1>4, SeqEqual DEF ThosePrefixes

(* What is left out makes the result shorter.                              *)
LEMMA ThoseShorter ==
  ASSUME NEW S, NEW s \in Seq(S), NEW kept, NEW j \in 1 .. Len(s), j \notin kept
  PROVE  Len(Those(s, kept)) < Len(s)
<1> DEFINE m == Len(s)
<1>0. PICK g : ThosePrefixes(S, s, kept, g)
  BY ThoseDef
<1> DEFINE T == {n \in 0 .. m : /\ g[n] \in Seq(S) /\ Len(g[n]) <= n
                                /\ j <= n => Len(g[n]) < n}
<1>1. /\ m \in Nat /\ g[0] = << >> /\ << >> \in Seq(S) /\ Len(<< >>) = 0
      /\ \A n \in 1 .. m : /\ g[n] = IF n \in kept THEN Append(g[n - 1], s[n]) ELSE g[n - 1]
                           /\ g[n] \in Seq(S)
  BY <1>0 DEF ThosePrefixes
<1>2. 0 \in T
  <2>1. 0 \in 0 .. m /\ g[0] \in Seq(S) /\ Len(g[0]) = 0
    BY <1>1
  <2> QED
    BY <2>1
<1>3. ASSUME NEW n \in 0 .. m - 1, n \in T PROVE n + 1 \in T
  <2>1. n + 1 \in 1 .. m /\ (n + 1) - 1 = n /\ s[n + 1] \in S
    BY <1>1
  <2>2. /\ g[n + 1] = IF n + 1 \in kept THEN Append(g[n], s[n + 1]) ELSE g[n]
        /\ g[n + 1] \in Seq(S)
    BY <1>1, <2>1
  <2>3. g[n] \in Seq(S) /\ Len(g[n]) <= n /\ (j <= n => Len(g[n]) < n) /\ Len(g[n]) \in Nat
    BY <1>3
  <2>4. Len(Append(g[n], s[n + 1])) = Len(g[n]) + 1
    BY <2>3
  <2>6. CASE n + 1 \in kept
    <3>1. g[n + 1] = Append(g[n], s[n + 1]) /\ n + 1 # j
      BY <2>2, <2>6
    <3>2. Len(g[n + 1]) = Len(g[n]) + 1
      BY <2>4, <3>1
    <3>3. Len(g[n + 1]) <= n + 1 /\ (j <= n + 1 => Len(g[n + 1]) < n + 1)
      BY <2>3, <3>1, <3>2
    <3>4. n + 1 \in 0 .. m /\ g[n + 1] \in Seq(S)
      BY <2>1, <2>2
    <3> QED
      BY <3>3, <3>4
  <2>7. CASE n + 1 \notin kept
    <3>1. g[n + 1] = g[n]
      BY <2>2, <2>7
    <3>3. Len(g[n + 1]) <= n + 1 /\ (j <= n + 1 => Len(g[n + 1]) < n + 1)
      BY <2>3, <3>1
    <3>4. n + 1 \in 0 .. m /\ g[n + 1] \in Seq(S)
      BY <2>1, <2>2
    <3> QED
      BY <3>3, <3>4
  <2> QED
    BY <2>6, <2>7
<1>4. m \in T
  <2>1. \A n \in 0 .. m - 1 : n \in T => n + 1 \in T
    BY <1>3
  <2>2. m \in Nat /\ m \in 0 .. m
    BY <1>1
  <2> HIDE DEF T, m
  <2>3. \A n \in 0 .. m : n \in T
    BY <1>2, <2>1, <2>2, NumbersUpTo
  <2> QED
    BY <2>2, <2>3
<1> QED
  BY <1>0, <1>4 DEF ThosePrefixes

(* From the same places of two sequences of one length come sequences of   *)
(* one length, with an element each of the same place.                     *)
Alike(s, u, kept, x, y) ==
  /\ Len(x) = Len(y)
  /\ \A k \in 1 .. Len(x) : \E i \in kept \cap (1 .. Len(s)) : x[k] = s[i] /\ y[k] = u[i]

LEMMA ThoseAlike ==
  ASSUME NEW S, NEW U, NEW s \in Seq(S), NEW u \in Seq(U), NEW kept, Len(u) = Len(s)
  PROVE  /\ Those(s, kept) \in Seq(S) /\ Those(u, kept) \in Seq(U)
         /\ Alike(s, u, kept, Those(s, kept), Those(u, kept))
<1> DEFINE m == Len(s)
<1>0. PICK g : ThosePrefixes(S, s, kept, g)
  BY ThoseDef
<1>00. PICK h : ThosePrefixes(U, u, kept, h)
  BY ThoseDef
<1> DEFINE T == {n \in 0 .. m : /\ g[n] \in Seq(S) /\ h[n] \in Seq(U)
                                /\ Alike(s, u, kept, g[n], h[n])}
<1>1. /\ m \in Nat /\ g[0] = << >> /\ h[0] = << >> /\ << >> \in Seq(S) /\ << >> \in Seq(U)
      /\ Len(<< >>) = 0
      /\ \A n \in 1 .. m : /\ g[n] = IF n \in kept THEN Append(g[n - 1], s[n]) ELSE g[n - 1]
                           /\ h[n] = IF n \in kept THEN Append(h[n - 1], u[n]) ELSE h[n - 1]
  BY <1>0, <1>00 DEF ThosePrefixes
<1>2. 0 \in T
  <2>1. 0 \in 0 .. m /\ g[0] \in Seq(S) /\ h[0] \in Seq(U)
    BY <1>1
  <2>2. Len(g[0]) = 0 /\ Len(h[0]) = 0
    BY <1>1
  <2>3. Alike(s, u, kept, g[0], h[0])
    BY <2>2 DEF Alike
  <2> QED
    BY <2>1, <2>3
<1>3. ASSUME NEW n \in 0 .. m - 1, n \in T PROVE n + 1 \in T
  <2>1. n + 1 \in 1 .. m /\ (n + 1) - 1 = n /\ s[n + 1] \in S /\ u[n + 1] \in U
    BY <1>1
  <2>2. g[n] \in Seq(S) /\ h[n] \in Seq(U) /\ Alike(s, u, kept, g[n], h[n])
    BY <1>3
  <2>3. CASE n + 1 \notin kept
    BY <1>1, <2>1, <2>2, <2>3
  <2>4. CASE n + 1 \in kept
    <3>1. g[n + 1] = Append(g[n], s[n + 1]) /\ h[n + 1] = Append(h[n], u[n + 1])
      BY <1>1, <2>1, <2>4
    <3> DEFINE l == Len(g[n])
    <3>2. /\ g[n + 1] \in Seq(S) /\ Len(g[n + 1]) = l + 1 /\ g[n + 1][l + 1] = s[n + 1]
          /\ \A k \in 1 .. l : g[n + 1][k] = g[n][k]
      BY <2>1, <2>2, <3>1, AppendProperties
    <3>3. /\ h[n + 1] \in Seq(U) /\ Len(h[n + 1]) = l + 1 /\ h[n + 1][l + 1] = u[n + 1]
          /\ \A k \in 1 .. l : h[n + 1][k] = h[n][k]
      <4>1. Len(h[n]) = l
        BY <2>2 DEF Alike
      <4> QED
        BY <2>1, <2>2, <3>1, <4>1, AppendProperties
    <3>4. l \in Nat
      BY <2>2
    <3>5. ASSUME NEW k \in 1 .. l + 1
          PROVE  \E i \in kept \cap (1 .. m) : g[n + 1][k] = s[i] /\ h[n + 1][k] = u[i]
      <4>1. CASE k = l + 1
        BY <2>1, <2>4, <3>2, <3>3, <4>1
      <4>2. CASE k # l + 1
        <5>1. k \in 1 .. l
          BY <3>4, <4>2
        <5>2. \E i \in kept \cap (1 .. m) : g[n][k] = s[i] /\ h[n][k] = u[i]
          BY <2>2, <5>1 DEF Alike
        <5> QED
          BY <3>2, <3>3, <5>1, <5>2
      <4> QED
        BY <4>1, <4>2
    <3> QED
      BY <2>1, <3>2, <3>3, <3>5 DEF Alike
  <2> QED
    BY <2>3, <2>4
<1>4. m \in T
  <2>1. \A n \in 0 .. m - 1 : n \in T => n + 1 \in T
    BY <1>3
  <2>2. m \in Nat /\ m \in 0 .. m
    BY <1>1
  <2> HIDE DEF T, m
  <2>3. \A n \in 0 .. m : n \in T
    BY <1>2, <2>1, <2>2, NumbersUpTo
  <2> QED
    BY <2>2, <2>3
<1> QED
  BY <1>0, <1>00, <1>4 DEF ThosePrefixes

(* Each of those is an element that was kept.                              *)
LEMMA ThoseOf ==
  ASSUME NEW S, NEW s \in Seq(S), NEW kept, NEW X, \A i \in 1 .. Len(s) : i \in kept => s[i] \in X
  PROVE  Those(s, kept) \in Seq(X)
<1>1. Those(s, kept) \in Seq(S) /\ Alike(s, s, kept, Those(s, kept), Those(s, kept))
  BY ThoseAlike
<1>2. \A k \in 1 .. Len(Those(s, kept)) : Those(s, kept)[k] \in X
  BY <1>1 DEF Alike
<1> QED
  BY <1>1, <1>2

-----------------------------------------------------------------------------
(* The marks of a text.                                                    *)
LEMMA PlacesProp ==
  ASSUME NEW S, NEW text \in Seq(S), NEW mark
  PROVE  /\ Places(mark, text) \subseteq 1 .. Len(text)
         /\ \A n \in Places(mark, text) : text[n] = mark
         /\ \A n \in 1 .. Len(text) : text[n] = mark => n \in Places(mark, text)
BY DEF Places

(* A line that brackets a value: where its parentheses are.                *)
BracketedFacts(S, t, v, text) ==
  /\ text \in Seq(S) /\ Len(text) = Len(v) + 3
  /\ text[1] = t /\ text[2] = "(" /\ text[Len(v) + 3] = ")"
  /\ \A k \in 1 .. Len(v) : text[k + 2] = v[k]
  /\ Places("(", text) # {} /\ Places(")", text) # {}
  /\ Min(Places("(", text)) = 2 /\ Max(Places(")", text)) = Len(v) + 3
  /\ SubSeq(text, 1, 1) = << t >> /\ SubSeq(text, 3, Len(v) + 2) = v

LEMMA BracketedText ==
  ASSUME NEW S, "(" \in S, ")" \in S, NEW t \in S, NEW v \in Seq(S), t # "("
  PROVE  BracketedFacts(S, t, v, << t >> \o Bracketed(v))
<1> DEFINE text == << t >> \o Bracketed(v)
           l == Len(v)
<1>1. l \in Nat /\ << "(" >> \in Seq(S) /\ << ")" >> \in Seq(S) /\ << t >> \in Seq(S)
      /\ Len(<< "(" >>) = 1 /\ Len(<< ")" >>) = 1 /\ Len(<< t >>) = 1
      /\ << "(" >>[1] = "(" /\ << ")" >>[1] = ")" /\ << t >>[1] = t
  OBVIOUS
<1>2. << "(" >> \o v \in Seq(S) /\ Len(<< "(" >> \o v) = l + 1
      /\ \A i \in 1 .. l + 1 : (<< "(" >> \o v)[i] = IF i <= 1 THEN << "(" >>[i] ELSE v[i - 1]
  <2>1. 1 + l = l + 1
    BY <1>1
  <2> QED
    BY <1>1, <2>1, ConcatProperties
<1>3. Bracketed(v) \in Seq(S) /\ Len(Bracketed(v)) = l + 2
      /\ \A i \in 1 .. l + 2 :
           Bracketed(v)[i] = IF i <= l + 1 THEN (<< "(" >> \o v)[i] ELSE << ")" >>[i - (l + 1)]
  <2> DEFINE a == << "(" >> \o v
  <2>1. (l + 1) + 1 = l + 2 /\ a \in Seq(S) /\ Len(a) = l + 1
    BY <1>1, <1>2
  <2>2. Bracketed(v) = a \o << ")" >>
    BY DEF Bracketed
  <2> HIDE DEF a
  <2>3. Bracketed(v) \in Seq(S) /\ Len(Bracketed(v)) = l + 2
        /\ \A i \in 1 .. l + 2 : Bracketed(v)[i] = IF i <= l + 1 THEN a[i] ELSE << ")" >>[i - (l + 1)]
    BY <1>1, <2>1, <2>2, ConcatProperties
  <2> QED
    BY <2>3 DEF a
<1>4. text \in Seq(S) /\ Len(text) = l + 3
      /\ \A i \in 1 .. l + 3 : text[i] = IF i <= 1 THEN << t >>[i] ELSE Bracketed(v)[i - 1]
  <2>1. 1 + (l + 2) = l + 3
    BY <1>1
  <2> QED
    BY <1>1, <1>3, <2>1, ConcatProperties
<1> HIDE DEF text
<1>5. text[1] = t
  BY <1>1, <1>4
<1>6. text[2] = "("
  <2>1. 2 \in 1 .. l + 3 /\ 1 \in 1 .. l + 2 /\ 1 \in 1 .. l + 1 /\ 1 <= l + 1 /\ ~ (2 <= 1) /\ 2 - 1 = 1
    BY <1>1
  <2> QED
    BY <1>1, <1>2, <1>3, <1>4, <2>1
<1>7. text[l + 3] = ")"
  <2>1. l + 3 \in 1 .. l + 3 /\ l + 2 \in 1 .. l + 2 /\ ~ (l + 2 <= l + 1) /\ ~ (l + 3 <= 1)
        /\ (l + 3) - 1 = l + 2 /\ (l + 2) - (l + 1) = 1
    BY <1>1
  <2> QED
    BY <1>1, <1>3, <1>4, <2>1
<1>8. ASSUME NEW k \in 1 .. l PROVE text[k + 2] = v[k]
  <2>1. k + 2 \in 1 .. l + 3 /\ k + 1 \in 1 .. l + 2 /\ k + 1 \in 1 .. l + 1 /\ k + 1 <= l + 1
        /\ ~ (k + 2 <= 1) /\ ~ (k + 1 <= 1) /\ (k + 2) - 1 = k + 1 /\ (k + 1) - 1 = k
    BY <1>1
  <2> QED
    BY <1>2, <1>3, <1>4, <2>1
<1>9. Places("(", text) # {} /\ Min(Places("(", text)) = 2
  <2>1. Places("(", text) \subseteq 1 .. l + 3 /\ 2 \in Places("(", text)
    <3>1. 2 \in 1 .. l + 3
      BY <1>1
    <3> QED
      BY <1>4, <1>6, <3>1, PlacesProp
  <2>2. ASSUME NEW y \in Places("(", text) PROVE 2 <= y
    <3>1. text[y] = "(" /\ y \in 1 .. l + 3
      BY <1>4, <2>1, PlacesProp
    <3>2. y # 1
      BY <1>5, <3>1
    <3> QED
      BY <1>1, <3>1, <3>2
  <2>3. l + 3 \in Nat
    BY <1>1
  <2> QED
    BY <2>1, <2>2, <2>3, MinIs
<1>10. Places(")", text) # {} /\ Max(Places(")", text)) = l + 3
  <2>1. Places(")", text) \subseteq 1 .. l + 3 /\ l + 3 \in Places(")", text) /\ l + 3 \in Nat
    <3>1. l + 3 \in 1 .. l + 3
      BY <1>1
    <3> QED
      BY <1>1, <1>4, <1>7, <3>1, PlacesProp
  <2>2. \A y \in Places(")", text) : l + 3 >= y
    BY <1>1, <2>1
  <2> QED
    BY <2>1, <2>2, MaxIs
<1>11. SubSeq(text, 1, 1) = << t >>
  <2>1. \A i \in 1 .. 1 : i = 1
    OBVIOUS
  <2>2. SubSeq(text, 1, 1) \in Seq(S) /\ Len(SubSeq(text, 1, 1)) = 1
        /\ SubSeq(text, 1, 1)[1] = text[1]
    <3>1. \A i \in 1 .. 1 : text[i] \in S
      BY <1>5, <2>1
    <3>2. /\ SubSeq(text, 1, 1) \in Seq(S)
          /\ Len(SubSeq(text, 1, 1)) = IF 1 <= 1 THEN 1 - 1 + 1 ELSE 0
          /\ \A i \in 1 .. 1 - 1 + 1 : SubSeq(text, 1, 1)[i] = text[1 + i - 1]
      BY <3>1, SubSeqProperties
    <3>3. 1 \in 1 .. 1 - 1 + 1 /\ 1 + 1 - 1 = 1
      OBVIOUS
    <3> QED
      BY <3>2, <3>3
  <2> DEFINE x == SubSeq(text, 1, 1)
             y == << t >>
  <2>3. x \in Seq(S) /\ y \in Seq(S) /\ Len(x) = Len(y) /\ Len(x) = 1 /\ x[1] = y[1]
    BY <1>1, <1>5, <2>2
  <2> HIDE DEF x, y
  <2>4. \A i \in 1 .. Len(x) : x[i] = y[i]
    BY <2>1, <2>3
  <2>5. x = y
    BY <2>3, <2>4, SeqEqual
  <2> QED
    BY <2>5 DEF x, y
<1>12. SubSeq(text, 3, l + 2) = v
  <2>1. ASSUME NEW i \in 3 .. l + 2 PROVE text[i] = v[i - 2] /\ text[i] \in S
    <3>1. i - 2 \in 1 .. l /\ (i - 2) + 2 = i
      BY <1>1
    <3> QED
      BY <1>8, <3>1
  <2> DEFINE e == l + 2
             x == SubSeq(text, 3, e)
  <2>2. 3 \in Int /\ e \in Int /\ \A i \in 3 .. e : text[i] \in S
    BY <1>1, <2>1
  <2>3. e - 3 + 1 = l /\ (IF 3 <= e THEN e - 3 + 1 ELSE 0) = l
    BY <1>1
  <2> HIDE DEF e
  <2>4. x \in Seq(S) /\ Len(x) = l /\ \A i \in 1 .. e - 3 + 1 : x[i] = text[3 + i - 1]
    BY <2>2, <2>3, SubSeqProperties
  <2> HIDE DEF x
  <2>6. ASSUME NEW i \in 1 .. l PROVE x[i] = v[i]
    <3>1. i \in 1 .. e - 3 + 1 /\ 3 + i - 1 = i + 2
      BY <1>1, <2>3
    <3> QED
      BY <1>8, <2>4, <3>1
  <2>5. x = v
    BY <2>4, <2>6, SeqEqual
  <2> QED
    BY <2>5 DEF x, e
<1>13. BracketedFacts(S, t, v, text)
  BY <1>4, <1>5, <1>6, <1>7, <1>8, <1>9, <1>10, <1>11, <1>12 DEF BracketedFacts
<1> QED
  BY <1>13 DEF text

-----------------------------------------------------------------------------
(* What the files and the memory of a command hold.                        *)

(* What the texts of files are made of: a reader may find no type.         *)
Written == Marks \cup {"no type"}

FileToken == [type : Words, value : Seq(Written)]

FileLine == [indent : Nat, text : Seq(Written)]

FileNode ==
  {node \in [depth : Nat, label : Words, leaf : BOOLEAN, value : Seq(Written)] :
     ~ node.leaf => node.value = << >>}

(* The same for the parser: of a keyword it needs the type only.           *)
SameToken(a, b) == a.type = b.type /\ (a.type \in Valued => a.value = b.value)

SameTokens(a, b) == Len(a) = Len(b) /\ \A k \in 1 .. Len(a) : SameToken(a[k], b[k])

(* Tokens and nodes that are the source's.                                 *)
TokensOf(s, tokens) == SameTokens(tokens, s.tokens)

NodesOf(s, nodes) == s \in DOMAIN SourceTree /\ Essence(nodes) = SourceTree[s] /\ ~ LexErrors(s)

(* What a file holds, and of what source if it is clean.                   *)
Holds(s, file) ==
  /\ file.kind = "tokens" => file.of \in Seq(FileToken) /\ (file.clean => TokensOf(s, file.of))
  /\ file.kind \in {"tree", "ast", "bundle"} =>
       file.of \in Seq(FileNode) /\ (file.clean => NodesOf(s, file.of))
  /\ file.kind \in {"ast", "bundle"} => file.ast \in Seq(FileLine)

(* The same for the memory, and the input is there.                        *)
FilesInv == \A f \in FileNames : Holds(source, disk[f])

InputInv ==
  phase = "input" /\ options.mode # "source" =>
    options.input \in FileNames /\ InputFile.kind \in KindsFor(options.mode)

MemoryInv ==
  /\ phase \in {"lexed", "traced", "tokens", "parse"} =>
       toks \in Seq(FileToken) /\ (clean => TokensOf(source, toks))
  /\ phase \in {"tree"} \cup Late => tree \in Seq(FileNode) /\ (clean => NodesOf(source, tree))
  /\ phase \in {"report", "generate", "run"} /\ clean => outcome = source.verdict
  /\ phase \in {"report", "generate", "run"} => ast \in Seq(FileLine)

ContentInv == FilesInv /\ InputInv /\ MemoryInv


-----------------------------------------------------------------------------
(* A token through a file.                                                 *)
LEMMA Singleton ==
  ASSUME NEW S, NEW e \in S
  PROVE  << e >> \in Seq(S) /\ Len(<< e >>) = 1 /\ << e >>[1] = e
OBVIOUS

LEMMA LinesType ==
  ASSUME NEW text \in Seq(Written)
  PROVE  LinesOf(text) \in Seq(Seq(Written \ {"\n"}))
<1> DEFINE breaks == Places("\n", text)
           Line(n) == {p \in DOMAIN text \ breaks : Cardinality({q \in breaks : q < p}) = n - 1}
           c == Cardinality(breaks) + 1
<1>1. c \in Nat
  <2>1. IsFiniteSet(1 .. Len(text))
    BY FS_Interval
  <2>2. breaks \subseteq 1 .. Len(text)
    BY DEF Places
  <2>3. IsFiniteSet(breaks)
    BY <2>1, <2>2, FS_Subset
  <2> QED
    BY <2>3, FS_CardinalityType
<1>2. ASSUME NEW n \in 1 .. c PROVE Those(text, Line(n)) \in Seq(Written \ {"\n"})
  <2>1. \A i \in 1 .. Len(text) : i \in Line(n) => text[i] \in Written \ {"\n"}
    BY DEF Places
  <2> HIDE DEF Line
  <2> QED
    BY <2>1, ThoseOf
<1>3. LinesOf(text) = [n \in 1 .. c |-> Those(text, Line(n))]
  BY DEF LinesOf
<1> HIDE DEF Line, c
<1> QED
  BY <1>1, <1>2, <1>3

(* A text without breaks is one line.                                      *)
LEMMA LinesOne ==
  ASSUME NEW text \in Seq(Written), Places("\n", text) = {}
  PROVE  LinesOf(text) = << text >>
<1> DEFINE breaks == Places("\n", text)
           Line(n) == {p \in DOMAIN text \ breaks : Cardinality({q \in breaks : q < p}) = n - 1}
           c == Cardinality(breaks) + 1
<1>1. c = 1
  <2>1. Cardinality(breaks) = 0
    BY FS_EmptySet
  <2> QED
    BY <2>1
<1>2. \A p : {q \in breaks : q < p} = {}
  OBVIOUS
<1>3. Line(1) = 1 .. Len(text)
  <2>1. 1 - 1 = 0 /\ Cardinality({}) = 0
    BY FS_EmptySet
  <2>2. \A p : Cardinality({q \in breaks : q < p}) = 1 - 1
    BY <1>2, <2>1
  <2>3. DOMAIN text \ breaks = 1 .. Len(text)
    OBVIOUS
  <2> QED
    BY <2>2, <2>3
<1>4. Those(text, Line(1)) = text
  <2>1. 1 .. Len(text) \subseteq Line(1)
    BY <1>3
  <2> HIDE DEF Line
  <2> QED
    BY <2>1, ThoseAll
<1>5. LinesOf(text) = [n \in 1 .. c |-> Those(text, Line(n))]
  BY DEF LinesOf
<1> HIDE DEF Line, c
<1>6. [n \in 1 .. 1 |-> Those(text, Line(n))] = [n \in 1 .. 1 |-> text]
  <2>1. \A n \in 1 .. 1 : Those(text, Line(n)) = text
    <3>1. \A n \in 1 .. 1 : n = 1
      OBVIOUS
    <3> QED
      BY <1>4, <3>1
  <2> QED
    BY <2>1
<1>7. [n \in 1 .. 1 |-> text] = << text >>
  OBVIOUS
<1> QED
  BY <1>1, <1>5, <1>6, <1>7

LEMMA MarksWritten ==
  /\ "(" \in Written /\ ")" \in Written /\ "\n" \in Written /\ "no type" \in Written
  /\ Words \subseteq Written \ {"(", ")", "[", "<", ">", "\n"} /\ Marks \subseteq Written
  /\ "no type" \in Words
BY MarksAssumption DEF Written, Words, Reserved, MetaMarks

LEMMA NameInWords == \A text : NameIn(text) \in Words
BY MarksWritten DEF NameIn

(* A bracketed token, and one by its type only.                            *)
LEMMA TextCases ==
  ASSUME NEW t \in FileToken
  PROVE  /\ t.type \in Words
         /\ t.type \in Written /\ t.type # "(" /\ t.type # "\n" /\ t.value \in Seq(Written)
         /\ t = [type |-> t.type, value |-> t.value]
         /\ TokenText(t) \in Seq(Written) /\ TokenText(t) # << >>
         /\ \/ t.type \in Valued /\ TokenText(t) = << t.type >> \o Bracketed(t.value)
            \/ /\ TokenText(t) = << t.type >>
               /\ t.type \in Valued => t.value = << >>
<1>1. /\ t.type \in Words
      /\ t.type \in Written /\ t.type # "(" /\ t.type # "\n" /\ t.value \in Seq(Written)
      /\ t = [type |-> t.type, value |-> t.value]
  BY MarksWritten DEF FileToken
<1>2. << t.type >> \in Seq(Written) /\ Len(<< t.type >>) = 1 /\ << t.type >> \o << >> = << t.type >>
  BY <1>1, Singleton, ConcatEmptySeq
<1>3. CASE t.type \in Valued /\ t.value # << >>
  <2>1. TokenText(t) = << t.type >> \o Bracketed(t.value)
    BY <1>3 DEF TokenText
  <2>2. TokenText(t) \in Seq(Written) /\ Len(TokenText(t)) = Len(t.value) + 3
    <3>1. "(" \in Written /\ ")" \in Written
      BY MarksWritten
    <3>2. BracketedFacts(Written, t.type, t.value, TokenText(t))
      BY <1>1, <2>1, <3>1, BracketedText
    <3> QED
      BY <3>2 DEF BracketedFacts
  <2>3. Len(TokenText(t)) # 0
    BY <1>1, <2>2
  <2>4. TokenText(t) # << >>
    BY <2>3, EmptySeq
  <2> QED
    BY <1>1, <1>3, <2>1, <2>2, <2>4
<1>4. CASE ~ (t.type \in Valued /\ t.value # << >>)
  <2>1. TokenText(t) = << t.type >>
    BY <1>2, <1>4 DEF TokenText
  <2>2. TokenText(t) # << >>
    BY <1>2, <2>1, EmptySeq
  <2> QED
    BY <1>1, <1>2, <1>4, <2>1, <2>2
<1> QED
  BY <1>3, <1>4

(* A token of one line is read back.                                       *)
LEMMA TokenBack ==
  ASSUME NEW t \in FileToken, ~ IsMultiline(t)
  PROVE  LinesOf(TokenText(t)) = << TokenText(t) >> /\ SameToken(TokenIn(TokenText(t)), t)
<1> DEFINE text == TokenText(t)
<1>1. /\ t.type \in Words
      /\ t.type \in Written /\ t.type # "(" /\ t.type # "\n" /\ t.value \in Seq(Written)
      /\ text \in Seq(Written)
      /\ \/ t.type \in Valued /\ text = << t.type >> \o Bracketed(t.value)
         \/ text = << t.type >> /\ (t.type \in Valued => t.value = << >>)
  BY TextCases
<1>2. CASE t.type \in Valued /\ text = << t.type >> \o Bracketed(t.value)
  <2> DEFINE l == Len(t.value)
  <2>1. /\ text \in Seq(Written) /\ Len(text) = l + 3
        /\ text[1] = t.type /\ text[2] = "(" /\ text[l + 3] = ")"
        /\ \A k \in 1 .. l : text[k + 2] = t.value[k]
        /\ Places("(", text) # {} /\ Min(Places("(", text)) = 2
        /\ Max(Places(")", text)) = l + 3
        /\ SubSeq(text, 1, 1) = << t.type >> /\ SubSeq(text, 3, l + 2) = t.value
    <3> HIDE DEF text
    <3>1. text = << t.type >> \o Bracketed(t.value) /\ t.type # "("
      BY <1>1, <1>2
    <3>2. "(" \in Written /\ ")" \in Written /\ t.type \in Written /\ t.value \in Seq(Written)
      BY <1>1, MarksWritten
    <3>3. BracketedFacts(Written, t.type, t.value, text)
      BY <3>1, <3>2, BracketedText
    <3> QED
      BY <3>3 DEF BracketedFacts
  <2>2. l \in Nat
    BY <1>1
  <2> HIDE DEF l, text
  <2>3. \A k \in 1 .. l : t.value[k] # "\n"
    BY <1>1 DEF IsMultiline, Places, l
  <2>4. Places("\n", text) = {}
    <3>1. ASSUME NEW k \in 1 .. l + 3 PROVE text[k] # "\n"
      <4>1. k = 1 \/ k = 2 \/ k = l + 3 \/ (k - 2 \in 1 .. l /\ (k - 2) + 2 = k)
        BY <2>2
      <4>2. CASE k - 2 \in 1 .. l /\ (k - 2) + 2 = k
        BY <2>1, <2>3, <4>2
      <4>3. CASE k = 1 \/ k = 2 \/ k = l + 3
        BY <1>1, <2>1, <4>3
      <4> QED
        BY <4>1, <4>2, <4>3
    <3> QED
      BY <2>1, <3>1 DEF Places
  <2>5. LinesOf(text) = << text >>
    BY <2>1, <2>4, LinesOne
  <2>6. 2 - 1 = 1 /\ 2 + 1 = 3 /\ (l + 3) - 1 = l + 2
    BY <2>2
  <2>7. NameIn(<< t.type >>) = t.type
    BY <1>1, Singleton DEF NameIn
  <2>8. TokenIn(text) = [type |-> t.type, value |-> t.value]
    BY <2>1, <2>6, <2>7 DEF TokenIn
  <2> QED
    BY <2>5, <2>8 DEF SameToken, text
<1>3. CASE text = << t.type >> /\ (t.type \in Valued => t.value = << >>)
  <2>1. text \in Seq(Written) /\ Len(text) = 1 /\ text[1] = t.type
    BY <1>1, <1>3, Singleton
  <2> HIDE DEF text
  <2>2. Places("\n", text) = {} /\ Places("(", text) = {}
    <3>1. DOMAIN text = 1 .. 1
      BY <2>1
    <3> QED
      BY <1>1, <2>1, <3>1 DEF Places
  <2>3. LinesOf(text) = << text >>
    BY <2>1, <2>2, LinesOne
  <2>4. NameIn(text) = t.type
    BY <1>1, <2>1 DEF NameIn
  <2>5. TokenIn(text) = [type |-> t.type, value |-> << >>]
    BY <2>2, <2>4 DEF TokenIn
  <2> QED
    BY <1>3, <2>3, <2>5 DEF SameToken, text
<1> QED
  BY <1>1, <1>2, <1>3

LEMMA TokenRecord ==
  ASSUME NEW a \in Words, NEW v \in Seq(Written)
  PROVE  [type |-> a, value |-> v] \in FileToken
BY DEF FileToken

(* What is read of a line is a token, if it is accepted at all.            *)
LEMMA TokenInType ==
  ASSUME NEW line \in Seq(Written \ {"\n"}), ~ IsMalformed(line)
  PROVE  TokenIn(line) \in FileToken
<1>0. \A i \in 1 .. Len(line) : line[i] \in Written /\ line[i] # "\n"
  OBVIOUS
<1>1. line \in Seq(Written) /\ Len(line) \in Nat
  <2>1. Written \ {"\n"} \subseteq Written
    OBVIOUS
  <2> QED
    BY <2>1, SeqMonotonic
<1>2. << >> \in Seq(Written)
  OBVIOUS
<1>3. CASE Places("(", line) = {}
  <2>1. NameIn(line) \in Words
    BY NameInWords
  <2>2. TokenIn(line) = [type |-> NameIn(line), value |-> << >>]
    BY <1>3 DEF TokenIn
  <2> QED
    BY <1>2, <2>1, <2>2, TokenRecord
<1>4. CASE Places("(", line) # {}
  <2> DEFINE open == Min(Places("(", line))
             close == Max(Places(")", line))
             name == SubSeq(line, 1, open - 1)
             value == SubSeq(line, open + 1, close - 1)
  <2>1. Places("(", line) \subseteq 1 .. Len(line) /\ Places(")", line) \subseteq 1 .. Len(line)
    BY <1>1, PlacesProp
  <2>2. open \in 1 .. Len(line)
    BY <1>1, <1>4, <2>1, MinProp
  <2>3. close \in 1 .. Len(line)
    <3>1. Places(")", line) # {}
      BY <1>4 DEF IsMalformed
    <3> QED
      BY <1>1, <2>1, <3>1, MaxProp
  <2>4. NameIn(name) \in Words
    BY NameInWords
  <2>5. value \in Seq(Written)
    <3> HIDE DEF open, close
    <3>1. \A i \in open + 1 .. close - 1 : line[i] \in Written
      <4>1. \A i \in open + 1 .. close - 1 : i \in 1 .. Len(line)
        BY <1>1, <2>2, <2>3
      <4> QED
        BY <1>0, <4>1
    <3>2. open + 1 \in Int /\ close - 1 \in Int
      BY <1>1, <2>2, <2>3
    <3> QED
      BY <3>1, <3>2, SubSeqProperties
  <2>6. TokenIn(line) = [type |-> NameIn(name), value |-> value]
    BY <1>4 DEF TokenIn
  <2> HIDE DEF name, value
  <2> QED
    BY <2>4, <2>5, <2>6, TokenRecord
<1> QED
  BY <1>3, <1>4

-----------------------------------------------------------------------------
(* What getline gives.                                                     *)
Line == Written \ {"\n"}

(* What the lines of a token file are.                                     *)
LEMMA TokenLinesType ==
  ASSUME NEW tokens \in Seq(FileToken)
  PROVE  TokenLines(tokens) \in Seq(Seq(Line)) /\ Filled(TokenLines(tokens)) \in Seq(Seq(Line))
<1> DEFINE all == [n \in DOMAIN tokens |-> LinesOf(TokenText(tokens[n]))]
<1>1. ASSUME NEW n \in DOMAIN tokens PROVE LinesOf(TokenText(tokens[n])) \in Seq(Seq(Line))
  <2>1. tokens[n] \in FileToken
    OBVIOUS
  <2>2. TokenText(tokens[n]) \in Seq(Written)
    BY <2>1, TextCases
  <2> QED
    BY <2>2, LinesType DEF Line
<1>2. all \in Seq(Seq(Seq(Line)))
  <2>1. DOMAIN tokens = 1 .. Len(tokens) /\ Len(tokens) \in Nat
    OBVIOUS
  <2> QED
    BY <1>1, <2>1
<1>3. TokenLines(tokens) \in Seq(Seq(Line))
  <2>1. TokenLines(tokens) = FlattenSeq(all)
    BY DEF TokenLines
  <2> HIDE DEF all
  <2> QED
    BY <1>2, <2>1, FlattenType
<1>4. Filled(TokenLines(tokens)) \in Seq(Seq(Line))
  <2> DEFINE lines == TokenLines(tokens)
  <2>1. lines \in Seq(Seq(Line))
    BY <1>3
  <2> HIDE DEF lines
  <2>2. Filled(lines) \in Seq(Seq(Line))
    BY <2>1, ThoseAlike DEF Filled
  <2> QED
    BY <2>2 DEF lines
<1> QED
  BY <1>3, <1>4

(* The tokens a reader makes of lines.                                     *)
TokensIn(lines) == [n \in DOMAIN lines |-> TokenIn(lines[n])]

LEMMA ReadTokensType ==
  ASSUME NEW lines \in Seq(Seq(Line)), \A n \in DOMAIN lines : ~ IsMalformed(lines[n])
  PROVE  TokensIn(lines) \in Seq(FileToken)
<1>1. DOMAIN lines = 1 .. Len(lines) /\ Len(lines) \in Nat
  OBVIOUS
<1>2. ASSUME NEW n \in DOMAIN lines PROVE TokenIn(lines[n]) \in FileToken
  <2>1. lines[n] \in Seq(Line) /\ ~ IsMalformed(lines[n])
    OBVIOUS
  <2> QED
    BY <2>1, TokenInType DEF Line
<1> QED
  BY <1>1, <1>2 DEF TokensIn

(* Without tokens of several lines every line is a token, and it is read   *)
(* as the token.                                                           *)
LEMMA ReadTokensSame ==
  ASSUME NEW tokens \in Seq(FileToken), \A n \in DOMAIN tokens : ~ IsMultiline(tokens[n])
  PROVE  SameTokens(TokensIn(Filled(TokenLines(tokens))), tokens)
<1> DEFINE all == [n \in DOMAIN tokens |-> LinesOf(TokenText(tokens[n]))]
           texts == [n \in DOMAIN tokens |-> TokenText(tokens[n])]
<1>1. DOMAIN tokens = 1 .. Len(tokens) /\ Len(tokens) \in Nat
  OBVIOUS
<1>2. ASSUME NEW n \in DOMAIN tokens
      PROVE  /\ TokenText(tokens[n]) \in Seq(Written) /\ TokenText(tokens[n]) # << >>
             /\ LinesOf(TokenText(tokens[n])) = << TokenText(tokens[n]) >>
             /\ SameToken(TokenIn(TokenText(tokens[n])), tokens[n])
  <2>1. tokens[n] \in FileToken /\ ~ IsMultiline(tokens[n])
    OBVIOUS
  <2> QED
    BY <2>1, TextCases, TokenBack
<1>3. texts \in Seq(Seq(Written)) /\ Len(texts) = Len(tokens)
      /\ \A n \in 1 .. Len(tokens) : texts[n] = TokenText(tokens[n])
  BY <1>1, <1>2
<1>4. all \in Seq(Seq(Seq(Written))) /\ Len(all) = Len(tokens)
      /\ \A n \in 1 .. Len(tokens) : all[n] = << texts[n] >>
  <2>1. \A n \in DOMAIN tokens :
          /\ LinesOf(TokenText(tokens[n])) = << texts[n] >> /\ << texts[n] >> \in Seq(Seq(Written))
    BY <1>1, <1>2, <1>3, Singleton
  <2> HIDE DEF texts
  <2>2. \A n \in DOMAIN tokens : all[n] = << texts[n] >> /\ all[n] \in Seq(Seq(Written))
    BY <2>1
  <2>3. all = [n \in 1 .. Len(tokens) |-> all[n]]
    BY <1>1
  <2> HIDE DEF all
  <2>4. all \in [1 .. Len(tokens) -> Seq(Seq(Written))]
    BY <1>1, <2>2, <2>3
  <2>5. all \in Seq(Seq(Seq(Written))) /\ Len(all) = Len(tokens)
    BY <1>1, <2>4, SMTT(40)
  <2> QED
    BY <1>1, <2>2, <2>5
<1>5. TokenLines(tokens) = texts
  <2>1. TokenLines(tokens) = FlattenSeq(all)
    BY DEF TokenLines
  <2> HIDE DEF all, texts
  <2> QED
    BY <1>3, <1>4, <2>1, FlattenSingles
<1> HIDE DEF all, texts
<1>6. Filled(texts) = texts
  <2> DEFINE kept == {n \in DOMAIN texts : texts[n] # << >>}
  <2>1. 1 .. Len(texts) \subseteq kept
    BY <1>1, <1>2, <1>3
  <2>2. Filled(texts) = Those(texts, kept)
    BY DEF Filled
  <2> HIDE DEF kept
  <2> QED
    BY <1>3, <2>1, <2>2, ThoseAll
<1>7. \A n \in 1 .. Len(tokens) : TokensIn(texts)[n] = TokenIn(TokenText(tokens[n]))
  BY <1>1, <1>3 DEF TokensIn
<1>8. Len(TokensIn(texts)) = Len(tokens)
  BY <1>1, <1>3 DEF TokensIn
<1>9. SameTokens(TokensIn(texts), tokens)
  BY <1>1, <1>2, <1>7, <1>8 DEF SameTokens
<1> QED
  BY <1>5, <1>6, <1>9

(* What the parser sees of the same tokens is the same.                    *)
LEMMA SameSignificant ==
  ASSUME NEW a \in Seq(FileToken), NEW b \in Seq(FileToken), SameTokens(a, b)
  PROVE  /\ Significant(a) \in Seq(FileToken) /\ Significant(b) \in Seq(FileToken)
         /\ SameTokens(Significant(a), Significant(b))
<1> DEFINE kept == {n \in DOMAIN a : a[n].type # "COMMENT"}
<1>1. Len(a) = Len(b) /\ DOMAIN a = 1 .. Len(a) /\ DOMAIN b = 1 .. Len(a)
      /\ \A k \in 1 .. Len(a) : SameToken(a[k], b[k])
  BY DEF SameTokens
<1>2. kept = {n \in DOMAIN b : b[n].type # "COMMENT"}
  BY <1>1 DEF SameToken
<1>3. Significant(a) = Those(a, kept) /\ Significant(b) = Those(b, kept)
  BY <1>2 DEF Significant
<1> HIDE DEF kept
<1>4. Those(a, kept) \in Seq(FileToken) /\ Those(b, kept) \in Seq(FileToken)
      /\ Alike(a, b, kept, Those(a, kept), Those(b, kept))
  BY <1>1, ThoseAlike
<1>5. SameTokens(Those(a, kept), Those(b, kept))
  BY <1>1, <1>4 DEF Alike, SameTokens
<1> QED
  BY <1>3, <1>4, <1>5

LEMMA SameStripped ==
  ASSUME NEW a \in Seq(FileToken), NEW b \in Seq(FileToken), SameTokens(a, b)
  PROVE  Stripped(a) = Stripped(b) /\ TypesOf(a) = TypesOf(b)
<1> DEFINE Strip(t) == IF t.type \in Valued THEN t ELSE [t EXCEPT !.value = << >>]
<1>1. Len(a) = Len(b) /\ DOMAIN a = 1 .. Len(a) /\ DOMAIN b = 1 .. Len(a)
      /\ \A k \in 1 .. Len(a) : SameToken(a[k], b[k])
  BY DEF SameTokens
<1>2. ASSUME NEW k \in 1 .. Len(a) PROVE Strip(a[k]) = Strip(b[k]) /\ a[k].type = b[k].type
  <2>1. a[k] \in FileToken /\ b[k] \in FileToken /\ SameToken(a[k], b[k])
    BY <1>1
  <2>2. a[k].type = b[k].type
    BY <2>1 DEF SameToken
  <2>3. CASE a[k].type \in Valued
    <3>1. a[k] = [type |-> a[k].type, value |-> a[k].value]
          /\ b[k] = [type |-> b[k].type, value |-> b[k].value]
      BY <2>1 DEF FileToken
    <3>2. a[k].value = b[k].value
      BY <2>1, <2>3 DEF SameToken
    <3>3. a[k] = b[k]
      BY <2>2, <3>1, <3>2
    <3> QED
      BY <3>3
  <2>4. CASE a[k].type \notin Valued
    <3>1. [a[k] EXCEPT !.value = << >>] = [type |-> a[k].type, value |-> << >>]
          /\ [b[k] EXCEPT !.value = << >>] = [type |-> b[k].type, value |-> << >>]
      BY <2>1 DEF FileToken
    <3> QED
      BY <2>2, <2>4, <3>1
  <2> QED
    BY <2>2, <2>3, <2>4
<1> HIDE DEF Strip
<1>3. Stripped(a) = [n \in 1 .. Len(a) |-> Strip(a[n])] /\ Stripped(b) = [n \in 1 .. Len(a) |-> Strip(b[n])]
  BY <1>1 DEF Stripped, Strip
<1>4. TypesOf(a) = [n \in 1 .. Len(a) |-> a[n].type] /\ TypesOf(b) = [n \in 1 .. Len(a) |-> b[n].type]
  BY <1>1 DEF TypesOf
<1> QED
  BY <1>2, <1>3, <1>4

LEMMA SameTransitive ==
  ASSUME NEW a \in Seq(FileToken), NEW b \in Seq(FileToken), NEW c \in Seq(FileToken),
         SameTokens(a, b), SameTokens(b, c)
  PROVE  SameTokens(a, c)
BY DEF SameTokens, SameToken

LEMMA SourceTokensType == source \in Sources => source.tokens \in Seq(FileToken)
<1> SUFFICES ASSUME source \in Sources PROVE source.tokens \in Seq(FileToken)
  OBVIOUS
<1>1. source.tokens \in Seq([type : Words, value : Seq(Marks)])
  BY SourcesAssumption
<1>2. ASSUME NEW t \in [type : Words, value : Seq(Marks)] PROVE t \in FileToken
  <2>1. t.type \in Words /\ t = [type |-> t.type, value |-> t.value]
    OBVIOUS
  <2>2. t.value \in Seq(Written)
    BY MarksWritten, SeqMonotonic
  <2> QED
    BY <2>1, <2>2, TokenRecord
<1>3. [type : Words, value : Seq(Marks)] \subseteq FileToken
  BY <1>2
<1> QED
  BY <1>1, <1>3, SeqMonotonic

-----------------------------------------------------------------------------
(* A node through a file.                                                  *)

(* What follows the last square bracket is lost, and nothing else.         *)
LEMMA LexemeBack ==
  ASSUME NEW t, NEW v \in Seq(Written), NEW text, BracketedFacts(Written, t, v, text), t # "["
  PROVE  /\ LexemeIn(text) \in Seq(Written)
         /\ Places("[", v) = {} => LexemeIn(text) = v
         /\ Places("[", v) # {} => Len(LexemeIn(text)) < Len(v)
<1> DEFINE l == Len(v)
           brackets == {n \in Places("[", text) : n > 2}
           last == IF brackets = {} THEN Len(text) ELSE Max(brackets) - 1
           payload == SubSeq(text, 2, last)
           inner == Tail(payload)
<1>1. /\ l \in Nat /\ text \in Seq(Written) /\ Len(text) = l + 3
      /\ text[1] = t /\ text[2] = "(" /\ text[l + 3] = ")"
      /\ \A k \in 1 .. l : text[k + 2] = v[k]
      /\ Min(Places("(", text)) = 2 /\ SubSeq(text, 3, l + 2) = v
  BY DEF BracketedFacts
<1>2. LexemeIn(text) = IF inner # << >> /\ inner[Len(inner)] = ")" THEN Front(inner) ELSE inner
  BY <1>1 DEF LexemeIn
<1>3. brackets \subseteq 3 .. l + 2 /\ brackets \subseteq 1 .. l + 3
      /\ \A k \in 1 .. l : v[k] = "[" <=> k + 2 \in brackets
  <2>1. Places("[", text) \subseteq 1 .. l + 3 /\ l + 3 \notin Places("[", text)
        /\ \A k \in 1 .. l + 3 : k \in Places("[", text) <=> text[k] = "["
    BY <1>1 DEF Places
  <2>2. brackets \subseteq 3 .. l + 2 /\ brackets \subseteq 1 .. l + 3
    BY <1>1, <2>1
  <2>3. \A k \in 1 .. l : k + 2 \in 1 .. l + 3 /\ k + 2 > 2
    BY <1>1
  <2> QED
    BY <1>1, <2>1, <2>2, <2>3
<1>4. Places("[", v) = {} <=> brackets = {}
  <2>1. ASSUME NEW n \in brackets PROVE n - 2 \in Places("[", v)
    <3>1. n - 2 \in 1 .. l /\ (n - 2) + 2 = n
      BY <1>1, <1>3
    <3> HIDE DEF brackets
    <3>2. v[n - 2] = "["
      BY <1>3, <2>1, <3>1
    <3> QED
      BY <3>1, <3>2 DEF Places
  <2>2. ASSUME NEW k \in Places("[", v) PROVE k + 2 \in brackets
    BY <1>3 DEF Places
  <2> HIDE DEF brackets
  <2> QED
    BY <2>1, <2>2
<1> HIDE DEF brackets
<1>5. /\ last \in 2 .. l + 3 /\ (brackets = {} => last = l + 3)
      /\ (brackets # {} => last <= l + 1)
  <2>1. CASE brackets = {}
    BY <1>1, <2>1
  <2>2. CASE brackets # {}
    <3>1. l + 3 \in Nat
      BY <1>1
    <3>2. Max(brackets) \in brackets
      BY <1>3, <2>2, <3>1, MaxProp
    <3>3. Max(brackets) \in 3 .. l + 2
      BY <1>3, <3>2
    <3> QED
      BY <1>1, <2>2, <3>3
  <2> QED
    BY <2>1, <2>2
<1> HIDE DEF last
<1>6. payload \in Seq(Written) /\ Len(payload) = last - 1 /\ payload # << >>
      /\ \A i \in 1 .. last - 1 : payload[i] = text[i + 1]
  <2>1. \A i \in 2 .. last : text[i] \in Written
    BY <1>1, <1>5
  <2>2. 2 \in Int /\ last \in Int /\ 2 <= last /\ last - 2 + 1 = last - 1
    BY <1>1, <1>5
  <2>3. payload \in Seq(Written) /\ Len(payload) = last - 1
        /\ \A i \in 1 .. last - 1 : payload[i] = text[2 + i - 1]
    BY <2>1, <2>2, SubSeqProperties
  <2>4. \A i \in 1 .. last - 1 : 2 + i - 1 = i + 1
    BY <2>2
  <2>5. last - 1 # 0
    BY <2>2
  <2> HIDE DEF payload
  <2>6. payload # << >>
    BY <2>3, <2>5, EmptySeq
  <2> QED
    BY <2>3, <2>4, <2>6
<1> HIDE DEF payload
<1>7. inner \in Seq(Written) /\ Len(inner) = last - 2
      /\ \A i \in 1 .. last - 2 : inner[i] = text[i + 2]
  <2>1. inner \in Seq(Written) /\ Len(inner) = Len(payload) - 1
        /\ \A i \in 1 .. Len(inner) : inner[i] = payload[i + 1]
    BY <1>6, HeadTailProperties
  <2>2. last - 1 - 1 = last - 2 /\ \A i \in 1 .. last - 2 : i + 1 \in 1 .. last - 1 /\ (i + 1) + 1 = i + 2
    BY <1>1, <1>5
  <2> HIDE DEF inner
  <2> QED
    BY <1>6, <2>1, <2>2
<1> HIDE DEF inner
<1>8. last - 2 \in Nat /\ last \in Int
  BY <1>1, <1>5
<1>9. Front(inner) \in Seq(Written) /\ (last - 2 # 0 => Len(Front(inner)) = last - 3
                                           /\ \A i \in 1 .. last - 3 : Front(inner)[i] = inner[i])
  <2>1. Front(inner) = SubSeq(inner, 1, last - 3)
    <3>1. last - 2 - 1 = last - 3
      BY <1>8
    <3> QED
      BY <1>7, <3>1 DEF Front
  <2>2. \A i \in 1 .. last - 3 : inner[i] \in Written
    <3>1. \A i \in 1 .. last - 3 : i \in 1 .. last - 2
      BY <1>8
    <3> QED
      BY <1>7, <3>1
  <2> DEFINE e == last - 3
  <2>3. 1 \in Int /\ e \in Int /\ (last - 2 # 0 => e - 1 + 1 = e /\ (IF 1 <= e THEN e - 1 + 1 ELSE 0) = e)
    BY <1>8
  <2>4. \A i \in 1 .. e : inner[i] \in Written
    BY <2>2
  <2> HIDE DEF e
  <2>5. /\ SubSeq(inner, 1, e) \in Seq(Written)
        /\ Len(SubSeq(inner, 1, e)) = IF 1 <= e THEN e - 1 + 1 ELSE 0
        /\ \A i \in 1 .. e - 1 + 1 : SubSeq(inner, 1, e)[i] = inner[1 + i - 1]
    BY <2>3, <2>4, SubSeqProperties
  <2>6. \A i \in 1 .. e : 1 + i - 1 = i
    BY <2>3
  <2>7. SubSeq(inner, 1, e) \in Seq(Written) /\ (last - 2 # 0 => Len(SubSeq(inner, 1, e)) = e
                                           /\ \A i \in 1 .. e : SubSeq(inner, 1, e)[i] = inner[i])
    BY <2>3, <2>5, <2>6
  <2> QED
    BY <2>1, <2>7 DEF e
<1>10. LexemeIn(text) \in Seq(Written)
  BY <1>2, <1>7, <1>9
<1>11. ASSUME brackets = {} PROVE LexemeIn(text) = v
  <2>1. last - 2 = l + 1 /\ l + 1 \in 1 .. l + 1 /\ (l + 1) + 2 = l + 3 /\ last - 3 = l /\ l + 1 # 0
    BY <1>1, <1>5, <1>11
  <2>2. inner[Len(inner)] = ")" /\ inner # << >>
    BY <1>1, <1>7, <2>1, EmptySeq
  <2>3. LexemeIn(text) = Front(inner)
    BY <1>2, <2>2
  <2>4. Len(Front(inner)) = l /\ \A i \in 1 .. l : Front(inner)[i] = v[i]
    <3>1. \A i \in 1 .. l : i \in 1 .. last - 2
      BY <1>1, <2>1
    <3> QED
      BY <1>1, <1>7, <1>9, <2>1, <3>1
  <2> DEFINE f == Front(inner)
  <2>5. f \in Seq(Written) /\ Len(f) = l /\ \A i \in 1 .. l : f[i] = v[i]
    BY <1>9, <2>4
  <2> HIDE DEF f
  <2>6. f = v
    BY <2>5, SeqEqual
  <2> QED
    BY <2>3, <2>6 DEF f
<1>12. ASSUME brackets # {} PROVE Len(LexemeIn(text)) < l
  <2>1. Len(inner) < l
    BY <1>1, <1>5, <1>7, <1>12
  <2>2. inner # << >> => Len(Front(inner)) < l
    <3>1. inner # << >> => last - 2 # 0
      BY <1>7, EmptySeq
    <3> QED
      BY <1>1, <1>5, <1>9, <1>12, <3>1
  <2> QED
    BY <1>2, <2>1, <2>2
<1> QED
  BY <1>4, <1>10, <1>11, <1>12

-----------------------------------------------------------------------------
EssenceOf(node) ==
  IF node.leaf /\ node.label \in Valued THEN node ELSE [node EXCEPT !.value = << >>]

LineOf(node) == [indent |-> node.depth, text |-> NodeText(node)]

(* Exactly the lost leaves change, or have no line that is read.           *)
NodeBack(node) ==
  LET line == LineOf(node) IN
  /\ line \in FileLine
  /\ ~ IsLostLeaf(node) => IsTreeLine(line) /\ EssenceOf(NodeIn(line)) = EssenceOf(node)
  /\ IsLostLeaf(node) /\ IsTreeLine(line) => EssenceOf(NodeIn(line)) # EssenceOf(node)

LEMMA NodeType ==
  ASSUME NEW x \in FileNode
  PROVE  /\ x = TreeNode(x.depth, x.label, x.leaf, x.value)
         /\ x.depth \in Nat /\ x.label \in Words /\ x.leaf \in BOOLEAN /\ x.value \in Seq(Written)
         /\ ~ x.leaf => x.value = << >>
         /\ x.label \in Written /\ x.label \notin Reserved
BY MarksWritten DEF FileNode, TreeNode, Words

LEMMA NodeEssence ==
  ASSUME NEW d, NEW a, NEW f, NEW v, NEW node, node = TreeNode(d, a, f, v), a \notin Valued
  PROVE  EssenceOf(node) = TreeNode(d, a, f, << >>)
<1>1. node.label = a
  BY DEF TreeNode
<1>2. [node EXCEPT !.value = << >>] = TreeNode(d, a, f, << >>)
  BY DEF TreeNode
<1> QED
  BY <1>1, <1>2 DEF EssenceOf

LEMMA NodeRecord ==
  ASSUME NEW d \in Nat, NEW a \in Words, NEW v \in Seq(Written)
  PROVE  TreeNode(d, a, TRUE, v) \in FileNode /\ TreeNode(d, a, FALSE, << >>) \in FileNode
BY DEF TreeNode, FileNode

(* A leaf's text, with a value and without, and that of an inner node.     *)
LEMMA NodeTexts ==
  ASSUME NEW x \in FileNode
  PROVE  /\ NodeText(x) \in Seq(Written) /\ NodeText(x) # << >>
         /\ NodeText(x)[1] \in {"<", x.label}
         /\ x.leaf /\ x.value # << >> => BracketedFacts(Written, x.label, x.value, NodeText(x))
         /\ x.leaf /\ x.value = << >> => NodeText(x) = << x.label >>
<1>0. /\ x.label \in Written /\ x.label # "(" /\ x.value \in Seq(Written)
      /\ "(" \in Written /\ ")" \in Written /\ "<" \in Written /\ ">" \in Written
  BY NodeType, MarksAssumption DEF Reserved, Written
<1>1. CASE x.leaf /\ x.value # << >>
  <2>1. NodeText(x) = << x.label >> \o Bracketed(x.value)
    BY <1>1 DEF NodeText
  <2>2. BracketedFacts(Written, x.label, x.value, NodeText(x))
    BY <1>0, <2>1, BracketedText
  <2>3. NodeText(x) \in Seq(Written) /\ Len(NodeText(x)) # 0 /\ NodeText(x)[1] = x.label
    BY <1>0, <2>2 DEF BracketedFacts
  <2>4. NodeText(x) # << >>
    BY <2>3, EmptySeq
  <2> QED
    BY <1>1, <2>2, <2>3, <2>4
<1>2. CASE x.leaf /\ x.value = << >>
  <2>1. NodeText(x) = << x.label >>
    <3>1. << x.label >> \o << >> = << x.label >>
      BY <1>0, Singleton, ConcatEmptySeq
    <3> QED
      BY <1>2, <3>1 DEF NodeText
  <2>2. << x.label >> \in Seq(Written) /\ << x.label >>[1] = x.label /\ << x.label >> # << >>
    BY <1>0, Singleton, EmptySeq
  <2> QED
    BY <1>2, <2>1, <2>2
<1>3. CASE ~ x.leaf
  <2>1. NodeText(x) = << "<", x.label, ">" >>
    BY <1>3 DEF NodeText
  <2>2. << "<", x.label, ">" >> \in Seq(Written) /\ << "<", x.label, ">" >>[1] = "<"
        /\ << "<", x.label, ">" >> # << >>
    BY <1>0
  <2> QED
    BY <1>3, <2>1, <2>2
<1> QED
  BY <1>1, <1>2, <1>3

(* What a reader looks for is on the line of a node if it is in its value. *)
LEMMA MarkInText ==
  ASSUME NEW x \in FileNode, NEW mark \in MetaMarks \cup {BeginMark, EndMark}
  PROVE  Places(mark, NodeText(x)) = {} <=> Places(mark, x.value) = {}
<1> DEFINE text == NodeText(x)
           v == x.value
<1>0. mark \notin {"(", ")", "<", ">"} /\ mark # x.label /\ v \in Seq(Written)
      /\ text \in Seq(Written)
  <2>1. mark \in Reserved /\ mark \notin {"(", ")", "<", ">"}
    BY DEF Reserved, MetaMarks, BeginMark, EndMark
  <2> QED
    BY <2>1, NodeType, NodeTexts
<1>1. CASE x.leaf /\ x.value # << >>
  <2> DEFINE l == Len(v)
  <2>1. /\ l \in Nat /\ Len(text) = l + 3 /\ text \in Seq(Written)
        /\ text[1] = x.label /\ text[2] = "(" /\ text[l + 3] = ")"
        /\ \A k \in 1 .. l : text[k + 2] = v[k]
    BY <1>0, <1>1, NodeTexts DEF BracketedFacts
  <2> HIDE DEF l, text
  <2>2. ASSUME NEW k \in Places(mark, v) PROVE k + 2 \in Places(mark, text)
    <3>1. k \in 1 .. l /\ v[k] = mark
      BY <1>0 DEF Places, l
    <3>2. k + 2 \in 1 .. l + 3
      BY <2>1, <3>1
    <3> QED
      BY <2>1, <3>1, <3>2 DEF Places
  <2>3. ASSUME NEW n \in Places(mark, text) PROVE n - 2 \in Places(mark, v)
    <3>1. n \in 1 .. l + 3 /\ text[n] = mark
      BY <2>1 DEF Places
    <3>2. n # 1 /\ n # 2 /\ n # l + 3
      BY <1>0, <2>1, <3>1
    <3>3. n - 2 \in 1 .. l /\ (n - 2) + 2 = n
      BY <2>1, <3>1, <3>2
    <3>4. v[n - 2] = mark
      BY <2>1, <3>1, <3>3
    <3> QED
      BY <1>0, <3>3, <3>4 DEF Places, l
  <2> QED
    BY <2>2, <2>3 DEF text
<1>2. CASE ~ (x.leaf /\ x.value # << >>)
  <2>1. v = << >> /\ Places(mark, v) = {}
    <3>1. v = << >>
      BY <1>2, NodeType
    <3>2. DOMAIN << >> = {}
      OBVIOUS
    <3> QED
      BY <3>1, <3>2 DEF Places
  <2>2. text = << x.label >> \/ text = << "<", x.label, ">" >>
    BY <1>2, <2>1, NodeTexts DEF NodeText
  <2>3. \A n \in DOMAIN text : text[n] \in {"<", x.label, ">"}
    <3>1. DOMAIN << x.label >> = 1 .. 1 /\ DOMAIN << "<", x.label, ">" >> = 1 .. 3
      OBVIOUS
    <3>2. \A n \in 1 .. 1 : << x.label >>[n] = x.label
      OBVIOUS
    <3>3. \A n \in 1 .. 3 : << "<", x.label, ">" >>[n] \in {"<", x.label, ">"}
      OBVIOUS
    <3> QED
      BY <2>2, <3>1, <3>2, <3>3
  <2>4. Places(mark, text) = {}
    BY <1>0, <2>3 DEF Places
  <2> QED
    BY <2>1, <2>4
<1> QED
  BY <1>1, <1>2

LEMMA LineOfType ==
  ASSUME NEW x \in FileNode
  PROVE  /\ LineOf(x) \in FileLine /\ LineOf(x).text = NodeText(x) /\ LineOf(x).indent = x.depth
         /\ IsTreeLine(LineOf(x)) <=>
              /\ \A mark \in MetaMarks : Places(mark, x.value) = {}
              /\ IsNonTerminalText(NodeText(x)) \/ Places("(", NodeText(x)) # {}
<1>1. LineOf(x).text = NodeText(x) /\ LineOf(x).indent = x.depth /\ LineOf(x) \in FileLine
  BY NodeType, NodeTexts DEF LineOf, FileLine
<1>2. NodeText(x) # << >> /\ NodeText(x)[1] # "Output"
  <2>1. NodeText(x) # << >> /\ NodeText(x)[1] \in {"<", x.label}
    BY NodeTexts
  <2>2. x.label # "Output"
    BY NodeType DEF Reserved
  <2> QED
    BY <2>1, <2>2
<1>3. \A mark \in MetaMarks : Places(mark, NodeText(x)) = {} <=> Places(mark, x.value) = {}
  BY MarkInText
<1> QED
  BY <1>1, <1>2, <1>3 DEF IsTreeLine

(* What is read of any line is a node.                                     *)
LEMMA LexemeType ==
  ASSUME NEW text \in Seq(Written), Places("(", text) # {}
  PROVE  LexemeIn(text) \in Seq(Written)
<1> DEFINE open == Min(Places("(", text))
           brackets == {n \in Places("[", text) : n > open}
           last == IF brackets = {} THEN Len(text) ELSE Max(brackets) - 1
           payload == SubSeq(text, open, last)
           inner == Tail(payload)
<1>1. Len(text) \in Nat /\ Places("(", text) \subseteq 1 .. Len(text)
      /\ brackets \subseteq 1 .. Len(text)
  BY PlacesProp
<1>2. open \in 1 .. Len(text)
  BY <1>1, MinProp
<1>3. LexemeIn(text) = IF inner # << >> /\ inner[Len(inner)] = ")" THEN Front(inner) ELSE inner
  BY DEF LexemeIn
<1>4. last \in open .. Len(text)
  <2>1. CASE brackets = {}
    BY <1>1, <1>2, <2>1
  <2>2. CASE brackets # {}
    <3>1. Max(brackets) \in brackets
      BY <1>1, <2>2, MaxProp
    <3>2. Max(brackets) \in 1 .. Len(text) /\ Max(brackets) > open
      BY <1>1, <3>1
    <3> QED
      BY <1>1, <1>2, <2>2, <3>2
  <2> QED
    BY <2>1, <2>2
<1> HIDE DEF open, last
<1>5. payload \in Seq(Written) /\ payload # << >>
  <2>1. \A i \in open .. last : text[i] \in Written
    <3>1. \A i \in open .. last : i \in 1 .. Len(text)
      BY <1>1, <1>2, <1>4
    <3> QED
      BY <3>1
  <2>2. open \in Int /\ last \in Int /\ open <= last /\ last - open + 1 # 0
    BY <1>1, <1>2, <1>4
  <2>3. payload \in Seq(Written) /\ Len(payload) = last - open + 1
    BY <2>1, <2>2, SubSeqProperties
  <2> HIDE DEF payload
  <2>4. Len(payload) # 0
    BY <2>2, <2>3
  <2> QED
    BY <2>3, <2>4, EmptySeq
<1> HIDE DEF payload
<1>6. inner \in Seq(Written)
  BY <1>5, HeadTailProperties
<1> HIDE DEF inner
<1>7. Front(inner) \in Seq(Written)
  <2> DEFINE e == Len(inner) - 1
  <2>1. \A i \in 1 .. e : inner[i] \in Written
    <3>1. \A i \in 1 .. e : i \in 1 .. Len(inner)
      BY <1>6
    <3> QED
      BY <1>6, <3>1
  <2>2. 1 \in Int /\ e \in Int
    BY <1>6
  <2>3. Front(inner) = SubSeq(inner, 1, e)
    BY DEF Front
  <2> HIDE DEF e
  <2> QED
    BY <2>1, <2>2, <2>3, SubSeqProperties
<1> QED
  BY <1>3, <1>6, <1>7

LEMMA NodeInType ==
  ASSUME NEW line \in FileLine, IsTreeLine(line)
  PROVE  NodeIn(line) \in FileNode
<1>1. line.indent \in Nat /\ line.text \in Seq(Written)
  BY DEF FileLine
<1>2. CASE IsNonTerminalText(line.text)
  <2>1. NodeIn(line) = TreeNode(line.indent, NameIn(SubSeq(line.text, 2, Len(line.text) - 1)), FALSE, << >>)
    BY <1>2 DEF NodeIn
  <2>2. << >> \in Seq(Written)
    OBVIOUS
  <2> QED
    BY <1>1, <2>1, <2>2, NameInWords, NodeRecord
<1>3. CASE ~ IsNonTerminalText(line.text)
  <2>1. NodeIn(line) = TreeNode(line.indent, NameIn(SubSeq(line.text, 1, Min(Places("(", line.text)) - 1)),
                                TRUE, LexemeIn(line.text))
    BY <1>3 DEF NodeIn
  <2>2. LexemeIn(line.text) \in Seq(Written)
    BY <1>1, <1>3, LexemeType DEF IsTreeLine
  <2> QED
    BY <1>1, <2>1, <2>2, NameInWords, NodeRecord
<1> QED
  BY <1>2, <1>3

LEMMA InnerBack ==
  ASSUME NEW x \in FileNode, ~ x.leaf
  PROVE  NodeBack(x)
<1> DEFINE text == << "<", x.label, ">" >>
<1>0. /\ x = TreeNode(x.depth, x.label, x.leaf, x.value) /\ x.value = << >> /\ x.label \in Words
  BY NodeType
<1>1. NodeText(x) = text
  BY DEF NodeText
<1>2. DOMAIN text = 1 .. 3 /\ Len(text) = 3 /\ text[1] = "<" /\ text[2] = x.label /\ text[3] = ">"
  OBVIOUS
<1>p. SubSeq(text, 2, 2) = << x.label >>
  <2> DEFINE S == {"<", x.label, ">"}
             z == SubSeq(text, 2, 2)
  <2>1. \A i \in 2 .. 2 : text[i] \in S
    BY <1>2
  <2> HIDE DEF S, text
  <2>2. 2 \in Int /\ 2 <= 2 /\ 2 - 2 + 1 = 1 /\ 2 + 1 - 1 = 2 /\ 1 \in 1 .. 1
    OBVIOUS
  <2>3. z \in Seq(S) /\ Len(z) = 1 /\ z[1] = text[2]
    BY <2>1, <2>2, SubSeqProperties
  <2>4. << x.label >> \in Seq(S) /\ Len(<< x.label >>) = 1 /\ << x.label >>[1] = x.label
    BY Singleton DEF S
  <2> HIDE DEF z
  <2>5. \A i \in 1 .. 1 : i = 1
    OBVIOUS
  <2>6. z = << x.label >>
    BY <1>2, <2>3, <2>4, <2>5, SeqEqual
  <2> QED
    BY <2>6 DEF z
<1> HIDE DEF text
<1>3. IsNonTerminalText(text)
  BY <1>2 DEF IsNonTerminalText
<1>4. \A mark : Places(mark, x.value) = {}
  <2>1. DOMAIN << >> = {}
    OBVIOUS
  <2> QED
    BY <1>0, <2>1 DEF Places
<1>5. LineOf(x).text = text /\ LineOf(x).indent = x.depth
  BY <1>1 DEF LineOf
<1>6. IsTreeLine(LineOf(x)) /\ LineOf(x) \in FileLine
  BY <1>1, <1>3, <1>4, LineOfType
<1>7. NodeIn(LineOf(x)) = TreeNode(x.depth, x.label, FALSE, << >>)
  <2>1. SubSeq(text, 2, 2) = << x.label >>
    BY <1>p
  <2>2. NameIn(<< x.label >>) = x.label
    BY <1>0, Singleton DEF NameIn
  <2>3. Len(text) - 1 = 2
    BY <1>2
  <2> QED
    BY <1>3, <1>5, <2>1, <2>2, <2>3 DEF NodeIn
<1>8. NodeIn(LineOf(x)) = x
  <2>1. x.leaf = FALSE
    BY NodeType
  <2> QED
    BY <1>0, <1>7, <2>1
<1>9. ~ IsLostLeaf(x)
  BY DEF IsLostLeaf
<1> QED
  BY <1>6, <1>8, <1>9 DEF NodeBack

LEMMA LeafBack ==
  ASSUME NEW x \in FileNode, x.leaf
  PROVE  NodeBack(x)
<1> DEFINE text == NodeText(x)
<1>0. /\ x = TreeNode(x.depth, x.label, x.leaf, x.value) /\ x.leaf = TRUE
      /\ x.depth \in Nat /\ x.label \in Words /\ x.value \in Seq(Written)
      /\ x.label \in Written /\ x.label \notin {"(", ")", "[", "<", ">", "\n"}
  BY NodeType DEF Reserved
<1>1. LineOf(x).text = text /\ LineOf(x).indent = x.depth /\ LineOf(x) \in FileLine
  BY LineOfType
<1>2. CASE x.value = << >>
  <2>1. text = << x.label >>
    BY <1>0, <1>2, NodeTexts
  <2>2. Len(text) = 1 /\ text[1] = x.label /\ DOMAIN text = 1 .. 1
    BY <2>1
  <2> HIDE DEF text
  <2>3. ~ IsNonTerminalText(text) /\ Places("(", text) = {}
    <3>1. x.label # "<" /\ x.label # "("
      BY <1>0
    <3>2. \A n \in 1 .. 1 : n = 1
      OBVIOUS
    <3> QED
      BY <2>2, <3>1, <3>2 DEF IsNonTerminalText, Places
  <2>4. ~ IsTreeLine(LineOf(x))
    BY <1>1, <2>3 DEF IsTreeLine
  <2>5. IsLostLeaf(x)
    BY <1>2 DEF IsLostLeaf
  <2> QED
    BY <1>1, <2>4, <2>5 DEF NodeBack
<1>3. CASE x.value # << >>
  <2> DEFINE v == x.value
             l == Len(v)
  <2>2. BracketedFacts(Written, x.label, v, text)
    BY <1>0, <1>3, NodeTexts
  <2> HIDE DEF text
  <2>3. /\ l \in Nat /\ Len(text) = l + 3 /\ text \in Seq(Written)
        /\ text[1] = x.label /\ text[2] = "(" /\ text[l + 3] = ")"
        /\ \A k \in 1 .. l : text[k + 2] = v[k]
        /\ Places("(", text) # {} /\ Min(Places("(", text)) = 2
        /\ SubSeq(text, 1, 1) = << x.label >>
    BY <1>0, <2>2 DEF BracketedFacts
  <2>4. ~ IsNonTerminalText(text)
    BY <1>0, <2>3 DEF IsNonTerminalText
  <2> HIDE DEF l
  <2>6. IsTreeLine(LineOf(x)) <=> \A mark \in MetaMarks : Places(mark, v) = {}
    BY <2>3, LineOfType DEF text
  <2>7. NodeIn(LineOf(x)) = TreeNode(x.depth, x.label, TRUE, LexemeIn(text))
    <3>1. NameIn(<< x.label >>) = x.label
      BY <1>0, Singleton DEF NameIn
    <3>2. SubSeq(text, 1, Min(Places("(", text)) - 1) = << x.label >>
      <4>1. Min(Places("(", text)) - 1 = 1
        BY <2>3
      <4> QED
        BY <2>3, <4>1
    <3>3. NodeIn(LineOf(x)) = TreeNode(x.depth, NameIn(<< x.label >>), TRUE, LexemeIn(text))
      BY <1>1, <2>4, <3>2 DEF NodeIn
    <3> QED
      BY <3>1, <3>3
  <2>8. /\ LexemeIn(text) \in Seq(Written)
        /\ Places("[", v) = {} => LexemeIn(text) = v
        /\ Places("[", v) # {} => Len(LexemeIn(text)) < Len(v)
    BY <1>0, <2>2, LexemeBack
  <2> DEFINE y == NodeIn(LineOf(x))
  <2>10. y.leaf /\ y.leaf = TRUE /\ y.label = x.label /\ y.depth = x.depth /\ y.value = LexemeIn(text)
    BY <2>7 DEF TreeNode
  <2>13. y = TreeNode(x.depth, x.label, TRUE, LexemeIn(text))
    BY <2>7
  <2>14. x = TreeNode(x.depth, x.label, TRUE, x.value)
    BY <1>0
  <2>11. CASE x.label \in Valued
    <3>1. EssenceOf(y) = y /\ EssenceOf(x) = x
      BY <2>10, <2>11 DEF EssenceOf
    <3>2. Places("[", v) = {} => y = x
      BY <1>0, <2>7, <2>8
    <3>3. Places("[", v) # {} => y # x
      <4>1. Places("[", v) # {} => y.value # x.value
        <5>1. Len(v) \in Nat /\ Len(LexemeIn(text)) \in Nat
          BY <1>0, <2>8
        <5> QED
          BY <2>8, <2>10, <5>1
      <4> QED
        BY <4>1
    <3>4. IsLostLeaf(x) <=> (\E mark \in MetaMarks : Places(mark, v) # {}) \/ Places("[", v) # {}
      BY <1>0, <1>3, <2>11 DEF IsLostLeaf
    <3> HIDE DEF y, v
    <3>5. ~ IsLostLeaf(x) => IsTreeLine(LineOf(x)) /\ EssenceOf(y) = EssenceOf(x)
      BY <2>6, <3>1, <3>2, <3>4
    <3>6. IsLostLeaf(x) /\ IsTreeLine(LineOf(x)) => EssenceOf(y) # EssenceOf(x)
      BY <2>6, <3>1, <3>3, <3>4
    <3> QED
      BY <1>1, <3>5, <3>6 DEF NodeBack, y
  <2>12. CASE x.label \notin Valued
    <3>2. EssenceOf(y) = EssenceOf(x)
      <4> HIDE DEF y
      <4>1. EssenceOf(y) = TreeNode(x.depth, x.label, TRUE, << >>)
        BY <2>12, <2>13, NodeEssence
      <4>2. EssenceOf(x) = TreeNode(x.depth, x.label, TRUE, << >>)
        BY <2>12, <2>14, NodeEssence
      <4> QED
        BY <4>1, <4>2
    <3>3. IsLostLeaf(x) <=> \E mark \in MetaMarks : Places(mark, v) # {}
      BY <1>0, <1>3, <2>12 DEF IsLostLeaf
    <3> HIDE DEF y, v
    <3>4. ~ IsLostLeaf(x) <=> IsTreeLine(LineOf(x))
      BY <2>6, <3>3
    <3> QED
      BY <1>1, <3>2, <3>4 DEF NodeBack, y
  <2> QED
    BY <2>11, <2>12
<1> QED
  BY <1>2, <1>3

-----------------------------------------------------------------------------
(* The nodes a reader makes of lines.                                      *)
NodesIn(lines) == [k \in DOMAIN lines |-> NodeIn(lines[k])]

LEMMA EssenceIs ==
  ASSUME NEW nodes \in Seq(FileNode)
  PROVE  Essence(nodes) = [k \in 1 .. Len(nodes) |-> EssenceOf(nodes[k])]
<1>1. DOMAIN nodes = 1 .. Len(nodes)
  OBVIOUS
<1> QED
  BY <1>1 DEF Essence, EssenceOf

LEMMA TreeLinesAre ==
  ASSUME NEW nodes \in Seq(FileNode)
  PROVE  /\ \A k \in 1 .. Len(nodes) :
              TreeLines(nodes)[k] = LineOf(nodes[k]) /\ NodeBack(nodes[k])
         /\ TreeLines(nodes) \in Seq(FileLine)
         /\ Len(TreeLines(nodes)) = Len(nodes)
<1> DEFINE all == TreeLines(nodes)
<1>1. DOMAIN nodes = 1 .. Len(nodes) /\ Len(nodes) \in Nat
  OBVIOUS
<1>2. all = [k \in 1 .. Len(nodes) |-> LineOf(nodes[k])]
  BY <1>1 DEF TreeLines, LineOf
<1>3. \A k \in 1 .. Len(nodes) : nodes[k] \in FileNode
  OBVIOUS
<1>4. \A k \in 1 .. Len(nodes) : NodeBack(nodes[k])
  BY <1>3, InnerBack, LeafBack
<1>5. \A k \in 1 .. Len(nodes) : LineOf(nodes[k]) \in FileLine
  BY <1>4 DEF NodeBack
<1> HIDE DEF all
<1>6. all \in Seq(FileLine) /\ Len(all) = Len(nodes)
  BY <1>1, <1>2, <1>5
<1> QED
  BY <1>2, <1>4, <1>6 DEF all

LEMMA ReadTreeType ==
  ASSUME NEW all \in Seq(FileLine)
  PROVE  /\ NodesIn(KeptLines(all)) \in Seq(FileNode)
         /\ Len(NodesIn(KeptLines(all))) <= Len(all)
<1> DEFINE K == {line \in FileLine : IsTreeLine(line)}
           kept == {k \in DOMAIN all : IsTreeLine(all[k])}
           lines == KeptLines(all)
<1>2. lines \in Seq(K)
  <2>1. \A i \in 1 .. Len(all) : i \in kept => all[i] \in K
    OBVIOUS
  <2>2. lines = Those(all, kept)
    BY DEF KeptLines
  <2> HIDE DEF K, kept, lines
  <2> QED
    BY <2>1, <2>2, ThoseOf
<1>3. ASSUME NEW line \in K PROVE NodeIn(line) \in FileNode
  BY <1>3, NodeInType
<1>7. Len(lines) <= Len(all)
  <2>1. lines = Those(all, kept)
    BY DEF KeptLines
  <2> HIDE DEF kept, lines
  <2>2. CASE 1 .. Len(all) \subseteq kept
    <3>1. lines = all
      BY <2>1, <2>2, ThoseAll
    <3> QED
      BY <3>1
  <2>3. CASE ~ (1 .. Len(all) \subseteq kept)
    <3>1. PICK j \in 1 .. Len(all) : j \notin kept
      BY <2>3
    <3>2. Len(lines) < Len(all)
      BY <2>1, <3>1, ThoseShorter
    <3>3. Len(lines) \in Nat
      BY <1>2
    <3> QED
      BY <3>2, <3>3
  <2> QED
    BY <2>2, <2>3
<1> HIDE DEF K, lines
<1>4. DOMAIN lines = 1 .. Len(lines) /\ Len(lines) \in Nat /\ \A k \in 1 .. Len(lines) : lines[k] \in K
  BY <1>2
<1>5. \A k \in 1 .. Len(lines) : NodeIn(lines[k]) \in FileNode
  BY <1>3, <1>4
<1>6. NodesIn(lines) \in Seq(FileNode) /\ Len(NodesIn(lines)) = Len(lines)
  BY <1>4, <1>5 DEF NodesIn
<1> QED
  BY <1>6, <1>7 DEF lines

(* What is read is what was saved exactly if no leaf is lost.              *)
LEMMA ReadTreeEssence ==
  ASSUME NEW nodes \in Seq(FileNode)
  PROVE  Essence(NodesIn(KeptLines(TreeLines(nodes)))) = Essence(nodes) <=> ~ IsLossy(nodes)
<1> DEFINE all == TreeLines(nodes)
           L == FileLine
           kept == {k \in DOMAIN all : IsTreeLine(all[k])}
           lines == KeptLines(all)
           m == Len(nodes)
<1>1. /\ \A k \in 1 .. m : all[k] = LineOf(nodes[k]) /\ NodeBack(nodes[k])
      /\ all \in Seq(L) /\ Len(all) = m /\ DOMAIN all = 1 .. m /\ DOMAIN nodes = 1 .. m /\ m \in Nat
  <2>1. \A k \in 1 .. m : all[k] = LineOf(nodes[k]) /\ NodeBack(nodes[k])
    BY TreeLinesAre
  <2>2. all \in Seq(L) /\ Len(all) = m
    BY TreeLinesAre
  <2>3. DOMAIN nodes = 1 .. m /\ m \in Nat
    OBVIOUS
  <2> HIDE DEF all, L
  <2>4. DOMAIN all = 1 .. m
    BY <2>2
  <2> QED
    BY <2>1, <2>2, <2>3, <2>4
<1>2. lines = Those(all, kept)
  BY DEF KeptLines
<1>3. NodesIn(lines) \in Seq(FileNode)
  BY <1>1, ReadTreeType
<1>4. IsLossy(nodes) <=> \E k \in 1 .. m : IsLostLeaf(nodes[k])
  BY <1>1 DEF IsLossy
<1> HIDE DEF all, L, lines
<1>5. \A k \in 1 .. m : k \in kept <=> IsTreeLine(LineOf(nodes[k]))
  BY <1>1
<1> HIDE DEF kept
<1>6. CASE 1 .. m \subseteq kept
  <2>1. lines = all
    BY <1>1, <1>2, <1>6, ThoseAll
  <2>2. NodesIn(lines) = [k \in 1 .. m |-> NodeIn(all[k])]
    BY <1>1, <2>1 DEF NodesIn
  <2>3. Len(NodesIn(lines)) = m /\ \A k \in 1 .. m : NodesIn(lines)[k] = NodeIn(LineOf(nodes[k]))
    BY <1>1, <2>2
  <2>4. \A k \in 1 .. m : IsLostLeaf(nodes[k]) <=> EssenceOf(NodesIn(lines)[k]) # EssenceOf(nodes[k])
    BY <1>1, <1>5, <1>6, <2>3 DEF NodeBack
  <2>5. Essence(NodesIn(lines)) = [k \in 1 .. m |-> EssenceOf(NodesIn(lines)[k])]
    BY <1>3, <2>3, EssenceIs
  <2>6. Essence(nodes) = [k \in 1 .. m |-> EssenceOf(nodes[k])]
    BY EssenceIs
  <2>7. Essence(NodesIn(lines)) = Essence(nodes)
          <=> \A k \in 1 .. m : EssenceOf(NodesIn(lines)[k]) = EssenceOf(nodes[k])
    BY <2>5, <2>6
  <2> QED
    BY <1>4, <2>4, <2>7 DEF lines, all
<1>7. CASE ~ (1 .. m \subseteq kept)
  <2>1. PICK j \in 1 .. m : j \notin kept
    BY <1>7
  <2>2. Len(lines) < m /\ Len(lines) \in Nat
    <3>1. Those(all, kept) \in Seq(L)
      BY <1>1, ThoseAlike
    <3> QED
      BY <1>1, <1>2, <2>1, <3>1, ThoseShorter
  <2>3. IsLossy(nodes)
    BY <1>1, <1>4, <1>5, <2>1 DEF NodeBack
  <2>4. Len(NodesIn(lines)) = Len(lines)
    <3>1. DOMAIN lines = 1 .. Len(lines)
      <4>1. lines \in Seq(L)
        BY <1>1, <1>2, ThoseAlike
      <4> QED
        BY <4>1
    <3> QED
      BY <2>2, <3>1 DEF NodesIn
  <2>5. DOMAIN Essence(NodesIn(lines)) = 1 .. Len(lines)
    BY <1>3, <2>4, EssenceIs
  <2>6. DOMAIN Essence(nodes) = 1 .. m
    BY EssenceIs
  <2>7. 1 .. Len(lines) # 1 .. m
    <3>1. m \in 1 .. m /\ m \notin 1 .. Len(lines)
      BY <1>1, <2>2
    <3> QED
      BY <3>1
  <2>8. Essence(NodesIn(lines)) # Essence(nodes)
    BY <2>5, <2>6, <2>7
  <2> QED
    BY <2>3, <2>8 DEF lines, all
<1> QED
  BY <1>6, <1>7

-----------------------------------------------------------------------------
(* The section of a bundle: any lines, and then those that were written.   *)
LEMMA FirstLine ==
  ASSUME NEW lines \in Seq(FileLine), NEW mark, LinesWith(mark, lines) # {}
  PROVE  /\ LinesWith(mark, lines) \subseteq 1 .. Len(lines) /\ Len(lines) \in Nat
         /\ Min(LinesWith(mark, lines)) \in LinesWith(mark, lines)
         /\ \A j \in LinesWith(mark, lines) : Min(LinesWith(mark, lines)) <= j
         /\ Min(LinesWith(mark, lines)) \in 1 .. Len(lines)
<1>1. LinesWith(mark, lines) \subseteq 1 .. Len(lines) /\ Len(lines) \in Nat
  BY DEF LinesWith
<1> QED
  BY <1>1, MinProp

LEMMA PieceType ==
  ASSUME NEW d \in Nat, NEW text \in Seq(Written)
  PROVE  Piece(d, text) \in Seq(FileLine) /\ Len(Piece(d, text)) \in 0 .. 1
<1>1. CASE text = << >>
  BY <1>1, EmptySeq DEF Piece
<1>2. CASE text # << >>
  <2>1. [indent |-> d, text |-> text] \in FileLine
    BY DEF FileLine
  <2>2. Piece(d, text) = << [indent |-> d, text |-> text] >>
    BY <1>2 DEF Piece
  <2> QED
    BY <2>1, <2>2, Singleton
<1> QED
  BY <1>1, <1>2

(* A part of a text, which may be empty.                                   *)
LEMMA PartType ==
  ASSUME NEW S, NEW s \in Seq(S), NEW a \in Nat \ {0}, NEW b \in 0 .. Len(s)
  PROVE  /\ SubSeq(s, a, b) \in Seq(S)
         /\ Len(SubSeq(s, a, b)) = IF a <= b THEN b - a + 1 ELSE 0
         /\ \A i \in 1 .. b - a + 1 : SubSeq(s, a, b)[i] = s[a + i - 1]
<1>1. Len(s) \in Nat /\ a \in Int /\ b \in Int
  OBVIOUS
<1>2. \A i \in a .. b : s[i] \in S
  <2>1. \A i \in a .. b : i \in 1 .. Len(s)
    BY <1>1
  <2> QED
    BY <2>1
<1> QED
  BY <1>1, <1>2, SubSeqProperties

LEMMA BeforeType ==
  ASSUME NEW lines \in Seq(FileLine), NEW mark, LinesWith(mark, lines) # {}
  PROVE  /\ Before(mark, lines) \in Seq(FileLine)
         /\ Len(Before(mark, lines)) \in Nat
         /\ Len(Before(mark, lines)) <= Min(LinesWith(mark, lines))
<1> DEFINE k == Min(LinesWith(mark, lines))
           text == lines[k].text
           p == Min(Places(mark, text))
           a == SubSeq(lines, 1, k - 1)
           b == Piece(lines[k].indent, SubSeq(text, 1, p - 1))
<1>1. k \in 1 .. Len(lines) /\ Len(lines) \in Nat /\ k \in LinesWith(mark, lines)
  BY FirstLine
<1>2. Before(mark, lines) = a \o b
  BY DEF Before
<1> HIDE DEF k
<1>3. lines[k] \in FileLine /\ Places(mark, text) # {}
  <2>1. lines[k] \in FileLine
    BY <1>1, ElementOfSeq
  <2> QED
    BY <1>1, <2>1 DEF LinesWith
<1>4. lines[k].indent \in Nat /\ text \in Seq(Written)
  BY <1>3 DEF FileLine
<1> HIDE DEF text
<1>5. p \in 1 .. Len(text) /\ Len(text) \in Nat
  BY <1>3, <1>4, PlacesProp, MinProp
<1> HIDE DEF p
<1>6. SubSeq(text, 1, p - 1) \in Seq(Written)
  <2>1. p - 1 \in 0 .. Len(text) /\ 1 \in Nat \ {0}
    BY <1>5
  <2> QED
    BY <1>4, <2>1, PartType
<1>7. b \in Seq(FileLine) /\ Len(b) \in 0 .. 1
  BY <1>4, <1>6, PieceType
<1>8. a \in Seq(FileLine) /\ Len(a) = k - 1
  <2>1. k - 1 \in 0 .. Len(lines) /\ 1 \in Nat \ {0} /\ (k - 1) - 1 + 1 = k - 1
        /\ (~ (1 <= k - 1) => k - 1 = 0)
    BY <1>1
  <2> QED
    BY <2>1, PartType
<1> HIDE DEF a, b
<1>9. a \o b \in Seq(FileLine) /\ Len(a \o b) = Len(a) + Len(b)
  BY <1>7, <1>8, ConcatProperties
<1>10. Len(a) + Len(b) \in Nat /\ Len(a) + Len(b) <= k
  <2>1. k \in Nat
    BY <1>1
  <2>2. \A i \in Nat, j \in 0 .. 1 : i = k - 1 => i + j \in Nat /\ i + j <= k
    BY <2>1
  <2>3. Len(a) \in Nat /\ Len(b) \in 0 .. 1 /\ Len(a) = k - 1
    BY <1>7, <1>8
  <2> QED
    BY <2>2, <2>3
<1> QED
  BY <1>2, <1>9, <1>10 DEF k

LEMMA AfterType ==
  ASSUME NEW lines \in Seq(FileLine), NEW mark, LinesWith(mark, lines) # {}
  PROVE  After(mark, lines) \in Seq(FileLine)
<1> DEFINE k == Min(LinesWith(mark, lines))
           text == lines[k].text
           p == Min(Places(mark, text))
           a == Piece(0, SubSeq(text, p + 1, Len(text)))
           b == SubSeq(lines, k + 1, Len(lines))
<1>1. k \in 1 .. Len(lines) /\ Len(lines) \in Nat /\ k \in LinesWith(mark, lines)
  BY FirstLine
<1>2. After(mark, lines) = a \o b
  BY DEF After
<1> HIDE DEF k
<1>3. lines[k] \in FileLine /\ Places(mark, text) # {}
  <2>1. lines[k] \in FileLine
    BY <1>1, ElementOfSeq
  <2> QED
    BY <1>1, <2>1 DEF LinesWith
<1>4. text \in Seq(Written)
  BY <1>3 DEF FileLine
<1> HIDE DEF text
<1>5. p \in 1 .. Len(text) /\ Len(text) \in Nat
  BY <1>3, <1>4, PlacesProp, MinProp
<1> HIDE DEF p
<1>6. SubSeq(text, p + 1, Len(text)) \in Seq(Written)
  <2>1. Len(text) \in 0 .. Len(text) /\ p + 1 \in Nat \ {0}
    BY <1>5
  <2> QED
    BY <1>4, <2>1, PartType
<1>7. a \in Seq(FileLine)
  BY <1>6, PieceType
<1>8. b \in Seq(FileLine)
  <2>1. Len(lines) \in 0 .. Len(lines) /\ k + 1 \in Nat \ {0}
    BY <1>1
  <2> QED
    BY <2>1, PartType
<1> HIDE DEF a, b
<1> QED
  BY <1>2, <1>7, <1>8, ConcatProperties

LEMMA SectionType ==
  ASSUME NEW lines \in Seq(FileLine)
  PROVE  Section(lines) \in Seq(FileLine)
<1>1. << >> \in Seq(FileLine)
  OBVIOUS
<1>2. CASE LinesWith(BeginMark, lines) # {}
  <2> DEFINE rest == After(BeginMark, lines)
  <2>1. rest \in Seq(FileLine)
    BY <1>2, AfterType
  <2> HIDE DEF rest
  <2>2. LinesWith(EndMark, rest) # {} => Before(EndMark, rest) \in Seq(FileLine)
    BY <2>1, BeforeType
  <2> QED
    BY <1>1, <1>2, <2>2 DEF Section, rest
<1> QED
  BY <1>1, <1>2 DEF Section

(* The line of a marker.                                                   *)
MarkerLine(mark) == [indent |-> 0, text |-> << mark >>]

LEMMA MarkerLineIs ==
  ASSUME NEW mark \in {BeginMark, EndMark}
  PROVE  /\ MarkerLine(mark) \in FileLine /\ << MarkerLine(mark) >> \in Seq(FileLine)
         /\ Len(<< MarkerLine(mark) >>) = 1 /\ << MarkerLine(mark) >>[1] = MarkerLine(mark)
         /\ MarkerLine(mark).text = << mark >> /\ MarkerLine(mark).indent = 0
         /\ Places(mark, << mark >>) # {} /\ Min(Places(mark, << mark >>)) = 1
         /\ SubSeq(<< mark >>, 1, 0) = << >> /\ SubSeq(<< mark >>, 2, 1) = << >>
         /\ Len(<< mark >>) = 1
<1>1. mark \in Written
  BY MarksAssumption DEF Written, Reserved
<1>2. << mark >> \in Seq(Written) /\ Len(<< mark >>) = 1 /\ << mark >>[1] = mark
  BY <1>1, Singleton
<1>3. MarkerLine(mark) \in FileLine /\ MarkerLine(mark).text = << mark >>
      /\ MarkerLine(mark).indent = 0
  BY <1>2 DEF MarkerLine, FileLine
<1>4. Places(mark, << mark >>) = {1}
  <2>1. DOMAIN << mark >> = 1 .. 1
    OBVIOUS
  <2>2. \A n \in 1 .. 1 : n = 1
    OBVIOUS
  <2> QED
    BY <1>2, <2>1, <2>2 DEF Places
<1>5. Min({1}) = 1
  <2>1. 1 \in Nat /\ {1} \subseteq 1 .. 1 /\ {1} # {}
    OBVIOUS
  <2>2. Min({1}) \in {1}
    BY <2>1, MinProp
  <2> QED
    BY <2>2
<1>6. SubSeq(<< mark >>, 1, 0) = << >> /\ SubSeq(<< mark >>, 2, 1) = << >>
  BY SubSeqEmpty
<1>7. << MarkerLine(mark) >> \in Seq(FileLine) /\ Len(<< MarkerLine(mark) >>) = 1
      /\ << MarkerLine(mark) >>[1] = MarkerLine(mark)
  BY <1>3, Singleton
<1> QED
  BY <1>2, <1>3, <1>4, <1>5, <1>6, <1>7

LEMMA BundleType ==
  ASSUME NEW file, file.ast \in Seq(FileLine), file.of \in Seq(FileNode)
  PROVE  /\ BundleLines(file) \in Seq(FileLine)
         /\ file.kind # "ast" =>
              BundleLines(file) =
                file.ast \o << MarkerLine(BeginMark) >> \o TreeLines(file.of) \o << MarkerLine(EndMark) >>
<1> DEFINE b == << MarkerLine(BeginMark) >>
           e == << MarkerLine(EndMark) >>
           t == TreeLines(file.of)
<1>1. b \in Seq(FileLine) /\ e \in Seq(FileLine)
  BY MarkerLineIs
<1>2. t \in Seq(FileLine)
  BY TreeLinesAre
<1>3. file.kind # "ast" => BundleLines(file) = file.ast \o b \o t \o e
  BY DEF BundleLines, MarkerLine
<1>4. file.kind = "ast" => BundleLines(file) = file.ast
  BY DEF BundleLines
<1> HIDE DEF b, e, t
<1>5. file.ast \o b \o t \o e \in Seq(FileLine)
  BY <1>1, <1>2, ConcatProperties
<1> QED
  BY <1>3, <1>4, <1>5 DEF b, e, t

(* What comes after the first of a mark that has a line of its own.        *)
LEMMA AfterMarker ==
  ASSUME NEW x \in Seq(FileLine), NEW y \in Seq(FileLine), LinesWith(BeginMark, x) = {}
  PROVE  /\ LinesWith(BeginMark, x \o << MarkerLine(BeginMark) >> \o y) # {}
         /\ After(BeginMark, x \o << MarkerLine(BeginMark) >> \o y) = y
<1> DEFINE b == << MarkerLine(BeginMark) >>
           c == x \o b
           all == c \o y
           a == Len(x)
           m == Len(y)
           W == LinesWith(BeginMark, all)
           text == << BeginMark >>
<1>1. b \in Seq(FileLine) /\ Len(b) = 1 /\ b[1] = MarkerLine(BeginMark) /\ a \in Nat /\ m \in Nat
      /\ MarkerLine(BeginMark).text = text
  BY MarkerLineIs
<1> HIDE DEF b
<1>2. c \in Seq(FileLine) /\ Len(c) = a + 1 /\ c[a + 1] = MarkerLine(BeginMark)
      /\ \A j \in 1 .. a : c[j] = x[j]
  <2>0. c \in Seq(FileLine) /\ Len(c) = Len(x) + Len(b)
        /\ \A j \in 1 .. Len(x) + Len(b) : c[j] = IF j <= Len(x) THEN x[j] ELSE b[j - Len(x)]
    BY <1>1, ConcatProperties
  <2> HIDE DEF c
  <2>1. c \in Seq(FileLine) /\ Len(c) = a + 1
        /\ \A j \in 1 .. a + 1 : c[j] = IF j <= a THEN x[j] ELSE b[j - a]
    BY <1>1, <2>0
  <2>2. a + 1 \in 1 .. a + 1 /\ ~ (a + 1 <= a) /\ (a + 1) - a = 1
    BY <1>1
  <2>3. \A j \in 1 .. a : j \in 1 .. a + 1 /\ j <= a
    BY <1>1
  <2> QED
    BY <1>1, <2>1, <2>2, <2>3
<1> HIDE DEF c
<1>3. /\ all \in Seq(FileLine) /\ Len(all) = a + 1 + m /\ all[a + 1] = MarkerLine(BeginMark)
      /\ \A j \in 1 .. a : all[j] = x[j]
      /\ \A j \in 1 .. m : all[j + a + 1] = y[j]
  <2>0. all \in Seq(FileLine) /\ Len(all) = Len(c) + m
        /\ \A j \in 1 .. Len(c) + m : all[j] = IF j <= Len(c) THEN c[j] ELSE y[j - Len(c)]
    BY <1>2, ConcatProperties
  <2> HIDE DEF all
  <2>1. all \in Seq(FileLine) /\ Len(all) = a + 1 + m
        /\ \A j \in 1 .. a + 1 + m : all[j] = IF j <= a + 1 THEN c[j] ELSE y[j - (a + 1)]
    BY <1>2, <2>0
  <2>2. a + 1 \in 1 .. a + 1 + m /\ a + 1 <= a + 1
    BY <1>1
  <2>3. \A j \in 1 .. a : j \in 1 .. a + 1 + m /\ j <= a + 1
    BY <1>1
  <2>4. \A j \in 1 .. m :
          j + a + 1 \in 1 .. a + 1 + m /\ ~ (j + a + 1 <= a + 1) /\ (j + a + 1) - (a + 1) = j
    BY <1>1
  <2> QED
    BY <1>2, <2>1, <2>2, <2>3, <2>4
<1> HIDE DEF all
<1>4. W \subseteq 1 .. a + 1 + m /\ a + 1 \in W
  <2>1. DOMAIN all = 1 .. a + 1 + m
    BY <1>3
  <2>2. a + 1 \in 1 .. a + 1 + m
    BY <1>1
  <2>3. Places(BeginMark, all[a + 1].text) # {}
    BY <1>1, <1>3, MarkerLineIs
  <2> QED
    BY <2>1, <2>2, <2>3 DEF LinesWith
<1>5. \A j \in 1 .. a : j \notin W
  <2>1. \A j \in 1 .. a : j \in DOMAIN x
    OBVIOUS
  <2>2. \A j \in DOMAIN x : Places(BeginMark, x[j].text) = {}
    BY DEF LinesWith
  <2> QED
    BY <1>3, <2>1, <2>2 DEF LinesWith
<1>6. \A j \in W : a + 1 <= j
  BY <1>1, <1>4, <1>5
<1> HIDE DEF W
<1>7. Min(W) = a + 1
  <2>1. a + 1 + m \in Nat
    BY <1>1
  <2> QED
    BY <1>4, <1>6, <2>1, MinIs
<1>8. all[a + 1].text = text
  BY <1>1, <1>3
<1>9. Piece(0, SubSeq(text, Min(Places(BeginMark, text)) + 1, Len(text))) = << >>
  <2>1. Min(Places(BeginMark, text)) = 1 /\ Len(text) = 1 /\ SubSeq(text, 2, 1) = << >>
    BY MarkerLineIs
  <2> HIDE DEF text
  <2>2. 1 + 1 = 2
    OBVIOUS
  <2> QED
    BY <2>1, <2>2 DEF Piece
<1> DEFINE z == SubSeq(all, (a + 1) + 1, Len(all))
<1>10. z = y
  <2>1. (a + 1) + 1 \in Nat \ {0} /\ Len(all) \in 0 .. Len(all)
        /\ Len(all) - ((a + 1) + 1) + 1 = m /\ (~ ((a + 1) + 1 <= Len(all)) => m = 0)
    BY <1>1, <1>3
  <2>2. z \in Seq(FileLine) /\ Len(z) = m /\ \A i \in 1 .. m : z[i] = all[((a + 1) + 1) + i - 1]
    BY <1>3, <2>1, PartType
  <2>3. \A i \in 1 .. m : ((a + 1) + 1) + i - 1 = i + a + 1
    BY <1>1
  <2>4. \A i \in 1 .. m : z[i] = y[i]
    BY <1>3, <2>2, <2>3
  <2> HIDE DEF z
  <2> QED
    BY <2>2, <2>4, SeqEqual
<1>11. After(BeginMark, all) = << >> \o z
  BY <1>7, <1>8, <1>9 DEF After, W
<1> HIDE DEF z
<1>12. After(BeginMark, all) = y
  BY <1>10, <1>11, ConcatEmptySeq
<1> QED
  BY <1>4, <1>12 DEF all, W, c, b

(* What comes before a mark that has a line of its own, and before one     *)
(* that stands in an earlier line.                                         *)
LEMMA BeforeMarker ==
  ASSUME NEW y \in Seq(FileLine)
  PROVE  /\ LinesWith(EndMark, y \o << MarkerLine(EndMark) >>) # {}
         /\ LinesWith(EndMark, y) = {} => Before(EndMark, y \o << MarkerLine(EndMark) >>) = y
         /\ \A k \in LinesWith(EndMark, y) : Len(Before(EndMark, y \o << MarkerLine(EndMark) >>)) <= k
<1> DEFINE e == << MarkerLine(EndMark) >>
           all == y \o e
           m == Len(y)
           W == LinesWith(EndMark, all)
           text == << EndMark >>
<1>1. e \in Seq(FileLine) /\ Len(e) = 1 /\ e[1] = MarkerLine(EndMark) /\ m \in Nat
      /\ MarkerLine(EndMark).text = text
  BY MarkerLineIs
<1> HIDE DEF e
<1>2. /\ all \in Seq(FileLine) /\ Len(all) = m + 1 /\ all[m + 1] = MarkerLine(EndMark)
      /\ \A j \in 1 .. m : all[j] = y[j]
  <2>1. all \in Seq(FileLine) /\ Len(all) = m + 1
        /\ \A j \in 1 .. m + 1 : all[j] = IF j <= m THEN y[j] ELSE e[j - m]
    BY <1>1, ConcatProperties
  <2>2. m + 1 \in 1 .. m + 1 /\ ~ (m + 1 <= m) /\ (m + 1) - m = 1
    BY <1>1
  <2>3. \A j \in 1 .. m : j \in 1 .. m + 1 /\ j <= m
    BY <1>1
  <2> QED
    BY <1>1, <2>1, <2>2, <2>3
<1> HIDE DEF all
<1>3. W \subseteq 1 .. m + 1 /\ m + 1 \in W
  <2>1. DOMAIN all = 1 .. m + 1
    BY <1>2
  <2>2. m + 1 \in 1 .. m + 1
    BY <1>1
  <2>3. Places(EndMark, all[m + 1].text) # {}
    BY <1>1, <1>2, MarkerLineIs
  <2> QED
    BY <2>1, <2>2, <2>3 DEF LinesWith
<1>4. \A j \in 1 .. m : j \in W <=> j \in LinesWith(EndMark, y)
  <2>1. \A j \in 1 .. m : j \in DOMAIN all /\ j \in DOMAIN y
    BY <1>1, <1>2
  <2> QED
    BY <1>2, <2>1 DEF LinesWith
<1>5. ASSUME NEW k \in LinesWith(EndMark, y) PROVE Len(Before(EndMark, all)) <= k
  <2>1. k \in 1 .. m
    BY DEF LinesWith
  <2>2. k \in W
    BY <1>4, <2>1
  <2>3. Min(W) <= k /\ Min(W) \in 1 .. m + 1
    BY <1>2, <2>2, FirstLine
  <2>4. Len(Before(EndMark, all)) <= Min(W) /\ Len(Before(EndMark, all)) \in Nat
    BY <1>2, <2>2, BeforeType
  <2> HIDE DEF W
  <2> QED
    BY <1>1, <2>1, <2>3, <2>4
<1>6. ASSUME LinesWith(EndMark, y) = {} PROVE Before(EndMark, all) = y
  <2>1. \A j \in W : m + 1 <= j
    BY <1>1, <1>3, <1>4, <1>6
  <2> HIDE DEF W
  <2>2. Min(W) = m + 1
    <3>1. m + 1 \in Nat
      BY <1>1
    <3> QED
      BY <1>3, <2>1, <3>1, MinIs
  <2>3. all[m + 1].text = text
    BY <1>1, <1>2
  <2>4. Piece(all[m + 1].indent, SubSeq(text, 1, Min(Places(EndMark, text)) - 1)) = << >>
    <3>1. Min(Places(EndMark, text)) = 1 /\ SubSeq(text, 1, 0) = << >>
      BY MarkerLineIs
    <3> HIDE DEF text
    <3>2. 1 - 1 = 0
      OBVIOUS
    <3> QED
      BY <3>1, <3>2 DEF Piece
  <2> DEFINE z == SubSeq(all, 1, (m + 1) - 1)
  <2>5. z = y
    <3>1. 1 \in Nat \ {0} /\ (m + 1) - 1 \in 0 .. Len(all) /\ ((m + 1) - 1) - 1 + 1 = m
          /\ (~ (1 <= (m + 1) - 1) => m = 0)
      BY <1>1, <1>2
    <3>2. z \in Seq(FileLine) /\ Len(z) = m /\ \A i \in 1 .. m : z[i] = all[1 + i - 1]
      BY <1>2, <3>1, PartType
    <3>3. \A i \in 1 .. m : 1 + i - 1 = i
      BY <1>1
    <3>4. \A i \in 1 .. m : z[i] = y[i]
      BY <1>2, <3>2, <3>3
    <3> HIDE DEF z
    <3> QED
      BY <3>2, <3>4, SeqEqual
  <2>6. Before(EndMark, all) = z \o << >>
    BY <2>2, <2>3, <2>4 DEF Before, W
  <2> HIDE DEF z
  <2> QED
    BY <2>5, <2>6, ConcatEmptySeq
<1> QED
  BY <1>3, <1>5, <1>6 DEF all, W, e

(* Without a begin marker in the AST, the section is the tree up to the    *)
(* first end marker in it.                                                 *)
LEMMA SectionIs ==
  ASSUME NEW file, file.ast \in Seq(FileLine), file.of \in Seq(FileNode), file.kind # "ast",
         ~ IsMisled(file)
  PROVE  /\ ~ IsCut(file.of) => Section(BundleLines(file)) = TreeLines(file.of)
         /\ \A k \in 1 .. Len(file.of) :
              EndsIn(file.of[k]) => Len(Section(BundleLines(file))) <= k
<1> DEFINE y == TreeLines(file.of)
           e == << MarkerLine(EndMark) >>
           b == << MarkerLine(BeginMark) >>
           all == BundleLines(file)
           m == Len(file.of)
<1>1. y \in Seq(FileLine) /\ Len(y) = m /\ e \in Seq(FileLine) /\ b \in Seq(FileLine)
      /\ \A k \in 1 .. m : y[k] = LineOf(file.of[k])
  BY TreeLinesAre, MarkerLineIs
<1>2. all = file.ast \o b \o y \o e
  BY BundleType
<1> HIDE DEF b, e, y, all
<1>3. all = file.ast \o b \o (y \o e) /\ y \o e \in Seq(FileLine)
  <2> DEFINE c == file.ast \o b
  <2>1. c \in Seq(FileLine) /\ y \o e \in Seq(FileLine)
    BY <1>1, ConcatProperties
  <2>2. all = (c \o y) \o e
    BY <1>2
  <2> HIDE DEF c
  <2>3. (c \o y) \o e = c \o (y \o e)
    BY <1>1, <2>1, ConcatAssociative
  <2> QED
    BY <2>1, <2>2, <2>3 DEF c
<1>4. LinesWith(BeginMark, all) # {} /\ After(BeginMark, all) = y \o e
  BY <1>3, AfterMarker DEF IsMisled, b
<1>5. LinesWith(EndMark, y \o e) # {}
  BY <1>1, BeforeMarker DEF e
<1>6. Section(all) = Before(EndMark, y \o e)
  BY <1>4, <1>5 DEF Section
<1>7. ASSUME NEW k \in 1 .. m PROVE k \in LinesWith(EndMark, y) <=> EndsIn(file.of[k])
  <2>1. file.of[k] \in FileNode /\ y[k] = LineOf(file.of[k]) /\ k \in DOMAIN y
    BY <1>1
  <2>2. y[k].text = NodeText(file.of[k])
    BY <2>1, LineOfType
  <2>3. Places(EndMark, NodeText(file.of[k])) = {} <=> Places(EndMark, file.of[k].value) = {}
    BY <2>1, MarkInText
  <2> QED
    BY <2>1, <2>2, <2>3 DEF LinesWith, EndsIn
<1>8. ASSUME ~ IsCut(file.of) PROVE Section(all) = y
  <2>1. DOMAIN y = 1 .. m /\ DOMAIN file.of = 1 .. m
    BY <1>1
  <2>2. LinesWith(EndMark, y) = {}
    BY <1>7, <1>8, <2>1 DEF IsCut, LinesWith
  <2> QED
    BY <1>1, <1>6, <2>2, BeforeMarker DEF e
<1>9. ASSUME NEW k \in 1 .. m, EndsIn(file.of[k]) PROVE Len(Section(all)) <= k
  BY <1>1, <1>6, <1>7, <1>9, BeforeMarker DEF e
<1> QED
  BY <1>8, <1>9 DEF y, all

(* Fewer lines than nodes are another tree.                                *)
LEMMA ReadShorter ==
  ASSUME NEW all \in Seq(FileLine), NEW nodes \in Seq(FileNode), Len(all) < Len(nodes)
  PROVE  Essence(NodesIn(KeptLines(all))) # Essence(nodes)
<1> DEFINE x == NodesIn(KeptLines(all))
<1>1. x \in Seq(FileNode) /\ Len(x) <= Len(all)
  BY ReadTreeType
<1> HIDE DEF x
<1>2. DOMAIN Essence(x) = 1 .. Len(x) /\ DOMAIN Essence(nodes) = 1 .. Len(nodes)
  BY <1>1, EssenceIs
<1>3. Len(nodes) \in 1 .. Len(nodes) /\ Len(nodes) \notin 1 .. Len(x)
  BY <1>1
<1>4. Essence(x) # Essence(nodes)
  BY <1>2, <1>3
<1> QED
  BY <1>4 DEF x

-----------------------------------------------------------------------------
(* Trees of the same tokens have the same essence.                         *)
LEMMA TreeOfType ==
  ASSUME NEW tokens \in Seq(FileToken), TypesOf(tokens) \in DOMAIN Trees
  PROVE  /\ TreeOf(tokens) \in Seq(FileNode)
         /\ LET nodes == Trees[TypesOf(tokens)] IN
            /\ Len(TreeOf(tokens)) = Len(nodes)
            /\ \A k \in 1 .. Len(nodes) :
                 /\ nodes[k].token # 0 =>
                      /\ nodes[k].token \in 1 .. Len(tokens)
                      /\ nodes[k].label = tokens[nodes[k].token].type
                 /\ TreeOf(tokens)[k] =
                      TreeNode(nodes[k].depth, nodes[k].label, nodes[k].token # 0,
                        IF nodes[k].token # 0 THEN tokens[nodes[k].token].value ELSE << >>)
<1> DEFINE types == TypesOf(tokens)
           nodes == Trees[types]
           Of(k) == TreeNode(nodes[k].depth, nodes[k].label, nodes[k].token # 0,
                        IF nodes[k].token # 0 THEN tokens[nodes[k].token].value ELSE << >>)
<1>1. DOMAIN tokens = 1 .. Len(tokens) /\ types = [n \in DOMAIN tokens |-> tokens[n].type]
  BY DEF TypesOf
<1>2. /\ nodes \in Seq([depth : Nat, label : Words, token : Nat])
      /\ \A k \in DOMAIN nodes :
           nodes[k].token # 0 => nodes[k].token \in DOMAIN types /\ nodes[k].label = types[nodes[k].token]
  BY TreesAssumption
<1>3. TreeOf(tokens) = [k \in DOMAIN nodes |-> Of(k)]
  BY <1>1 DEF TreeOf
<1> HIDE DEF nodes
<1>4. DOMAIN nodes = 1 .. Len(nodes) /\ Len(nodes) \in Nat
  BY <1>2
<1>5. ASSUME NEW k \in 1 .. Len(nodes)
      PROVE  /\ nodes[k].depth \in Nat /\ nodes[k].label \in Words
             /\ nodes[k].token # 0 =>
                  /\ nodes[k].token \in 1 .. Len(tokens)
                  /\ nodes[k].label = tokens[nodes[k].token].type
  <2>1. nodes[k] \in [depth : Nat, label : Words, token : Nat]
    BY <1>2, ElementOfSeq
  <2>2. nodes[k].token # 0 => nodes[k].token \in DOMAIN types /\ nodes[k].label = types[nodes[k].token]
    BY <1>2, <1>4
  <2>3. DOMAIN types = 1 .. Len(tokens) /\ \A n \in 1 .. Len(tokens) : types[n] = tokens[n].type
    BY <1>1
  <2> HIDE DEF types
  <2> QED
    BY <2>1, <2>2, <2>3
<1>6. ASSUME NEW k \in 1 .. Len(nodes) PROVE Of(k) \in FileNode
  <2>1. CASE nodes[k].token # 0
    <3>1. tokens[nodes[k].token] \in FileToken
      BY <1>5, <2>1
    <3>2. tokens[nodes[k].token].value \in Seq(Written)
      BY <3>1, TextCases
    <3>3. Of(k) = TreeNode(nodes[k].depth, nodes[k].label, TRUE, tokens[nodes[k].token].value)
      BY <2>1
    <3> HIDE DEF Of
    <3> QED
      BY <1>5, <3>2, <3>3, NodeRecord
  <2>2. CASE nodes[k].token = 0
    <3>1. Of(k) = TreeNode(nodes[k].depth, nodes[k].label, FALSE, << >>)
      BY <2>2
    <3>2. << >> \in Seq(Written)
      OBVIOUS
    <3>3. ASSUME NEW d \in Nat, NEW a \in Words PROVE TreeNode(d, a, FALSE, << >>) \in FileNode
      BY <3>2 DEF TreeNode, FileNode
    <3> HIDE DEF Of
    <3> QED
      BY <1>5, <3>1, <3>3
  <2> QED
    BY <2>1, <2>2
<1>7. TreeOf(tokens) \in Seq(FileNode) /\ Len(TreeOf(tokens)) = Len(nodes)
      /\ \A k \in 1 .. Len(nodes) : TreeOf(tokens)[k] = Of(k)
  <2> HIDE DEF Of
  <2> QED
    BY <1>3, <1>4, <1>6
<1> QED
  BY <1>5, <1>7 DEF nodes

LEMMA SameTrees ==
  ASSUME NEW a \in Seq(FileToken), NEW b \in Seq(FileToken), SameTokens(a, b),
         TypesOf(a) \in DOMAIN Trees
  PROVE  Essence(TreeOf(a)) = Essence(TreeOf(b))
<1> DEFINE nodes == Trees[TypesOf(a)]
<1>1. TypesOf(a) = TypesOf(b)
  BY SameStripped
<1>2. /\ TreeOf(a) \in Seq(FileNode) /\ TreeOf(b) \in Seq(FileNode)
      /\ Len(TreeOf(a)) = Len(nodes) /\ Len(TreeOf(b)) = Len(nodes)
      /\ \A k \in 1 .. Len(nodes) :
           /\ nodes[k].token # 0 => nodes[k].token \in 1 .. Len(a) /\ nodes[k].label = a[nodes[k].token].type
           /\ TreeOf(a)[k] = TreeNode(nodes[k].depth, nodes[k].label, nodes[k].token # 0,
                               IF nodes[k].token # 0 THEN a[nodes[k].token].value ELSE << >>)
           /\ TreeOf(b)[k] = TreeNode(nodes[k].depth, nodes[k].label, nodes[k].token # 0,
                               IF nodes[k].token # 0 THEN b[nodes[k].token].value ELSE << >>)
  BY <1>1, TreeOfType
<1> HIDE DEF nodes
<1>3. ASSUME NEW k \in 1 .. Len(nodes) PROVE EssenceOf(TreeOf(a)[k]) = EssenceOf(TreeOf(b)[k])
  <2> DEFINE p == nodes[k].token
             label == nodes[k].label
             x == TreeOf(a)[k]
             y == TreeOf(b)[k]
  <2>1. CASE p # 0 /\ label \in Valued
    <3>1. p \in 1 .. Len(a) /\ label = a[p].type /\ SameToken(a[p], b[p])
      BY <1>2, <2>1 DEF SameTokens
    <3>2. a[p].value = b[p].value
      BY <2>1, <3>1 DEF SameToken
    <3> QED
      BY <1>2, <2>1, <3>2
  <2>2. CASE p = 0
    BY <1>2, <2>2
  <2>3. CASE label \notin Valued
    <3>1. /\ x = TreeNode(nodes[k].depth, label, p # 0, IF p # 0 THEN a[p].value ELSE << >>)
          /\ y = TreeNode(nodes[k].depth, label, p # 0, IF p # 0 THEN b[p].value ELSE << >>)
      BY <1>2
    <3> HIDE DEF x, y, p, label
    <3>2. EssenceOf(x) = TreeNode(nodes[k].depth, label, p # 0, << >>)
      BY <2>3, <3>1, NodeEssence
    <3>3. EssenceOf(y) = TreeNode(nodes[k].depth, label, p # 0, << >>)
      BY <2>3, <3>1, NodeEssence
    <3> QED
      BY <3>2, <3>3 DEF x, y
  <2> QED
    BY <2>1, <2>2, <2>3
<1>4. Essence(TreeOf(a)) = [k \in 1 .. Len(nodes) |-> EssenceOf(TreeOf(a)[k])]
      /\ Essence(TreeOf(b)) = [k \in 1 .. Len(nodes) |-> EssenceOf(TreeOf(b)[k])]
  BY <1>2, EssenceIs
<1> QED
  BY <1>3, <1>4

-----------------------------------------------------------------------------
LEMMA SaveHolds ==
  ASSUME TypeInv, FilesInv, UNCHANGED source, NEW n \in FileNames \cup {NoName}, NEW kind, NEW of,
         Save(n, kind, of), Holds(source, [kind |-> kind, of |-> of, ast |-> ast, by |-> count, clean |-> clean])
  PROVE  FilesInv'
<1> DEFINE r == [kind |-> kind, of |-> of, ast |-> ast, by |-> count, clean |-> clean]
<1>1. CASE n = NoName
  BY <1>1 DEF Save, FilesInv
<1>2. CASE n # NoName
  <2>1. n \in FileNames /\ disk' = [disk EXCEPT ![n] = r] /\ disk = [f \in FileNames |-> disk[f]]
    BY <1>2 DEF Save, Store, TypeInv
  <2> HIDE DEF r
  <2>2. \A f \in FileNames : disk'[f] = IF f = n THEN r ELSE disk[f]
    BY <2>1
  <2>3. Holds(source, r)
    BY DEF r
  <2> QED
    BY <2>2, <2>3 DEF FilesInv
<1> QED
  BY <1>1, <1>2

LEMMA FilesStep == TypeInv /\ PhaseInv /\ ContentInv /\ PipelineStep => FilesInv'
<1> SUFFICES ASSUME TypeInv, PhaseInv, ContentInv, PipelineStep PROVE FilesInv'
  OBVIOUS
<1>0. /\ FilesInv /\ MemoryInv /\ source' = source
      /\ options.trace \in FileNames \cup {NoName} /\ options.saveTokens \in FileNames \cup {NoName}
      /\ options.saveTree \in FileNames \cup {NoName} /\ options.saveAst \in FileNames \cup {NoName}
  BY RestStep, DiskStep, OptionTypes DEF ContentInv, DiskKept
<1>u. ASSUME UNCHANGED disk PROVE FilesInv'
  BY <1>0, <1>u DEF FilesInv
<1>1. CASE SaveTrace
  <2>1. Holds(source, [kind |-> "trace", of |-> << >>, ast |-> ast, by |-> count, clean |-> clean])
    BY DEF Holds
  <2> QED
    BY <1>0, <1>u, <1>1, <2>1, SaveHolds DEF SaveTrace, CannotWrite
<1>2. ASSUME phase \in {"traced", "tokens"}
      PROVE  Holds(source, [kind |-> "tokens", of |-> toks, ast |-> ast, by |-> count, clean |-> clean])
  BY <1>0, <1>2 DEF Holds, MemoryInv
<1>3. ASSUME phase = "tree"
      PROVE  Holds(source, [kind |-> "tree", of |-> tree, ast |-> ast, by |-> count, clean |-> clean])
  BY <1>0, <1>3 DEF Holds, MemoryInv
<1>r. ASSUME phase = "report", NEW kind \in {"ast", "bundle"}
      PROVE  Holds(source, [kind |-> kind, of |-> tree, ast |-> ast, by |-> count, clean |-> clean])
  BY <1>0, <1>r DEF Holds, MemoryInv, Late
<1>4. CASE ReportLexErrors
  BY <1>0, <1>u, <1>2, <1>4, SaveHolds DEF ReportLexErrors
<1>5. CASE SaveTokens
  BY <1>0, <1>u, <1>2, <1>5, SaveHolds DEF SaveTokens, CannotWrite
<1>6. CASE SaveTree
  BY <1>0, <1>u, <1>3, <1>6, SaveHolds DEF SaveTree, CannotWrite
<1>7. CASE Report
  <2>1. PICK kind \in {"ast", "bundle"} : kind = IF options.embed THEN "bundle" ELSE "ast"
    OBVIOUS
  <2>2. phase = "report" /\ (Save(options.saveAst, kind, tree) \/ UNCHANGED disk)
    BY <1>7, <2>1 DEF Report, CannotWrite
  <2>3. Holds(source, [kind |-> kind, of |-> tree, ast |-> ast, by |-> count, clean |-> clean])
    BY <1>r, <2>2
  <2> QED
    BY <1>0, <1>u, <2>2, <2>3, SaveHolds
<1>8. CASE Lex \/ RefuseTrace \/ ReadTokens \/ ReadTree \/ PassLexer \/ Parse \/ Analyse \/ Generate \/ Run
  BY <1>u, <1>8 DEF Lex, RefuseTrace, ReadTokens, ReadTree, PassLexer, Parse, Analyse, Generate, Run
<1> QED
  BY <1>1, <1>4, <1>5, <1>6, <1>7, <1>8 DEF PipelineStep

-----------------------------------------------------------------------------
(* What the readers and the parser put into the memory.                    *)
LEMMA ReadTokensGives ==
  ASSUME TypeInv, PhaseInv, ContentInv, ReadTokens, phase' # "exited"
  PROVE  /\ toks' \in Seq(FileToken) /\ (clean' => TokensOf(source, toks'))
         /\ \/ \E n \in DOMAIN InputFile.of : IsMultiline(InputFile.of[n])
            \/ Stripped(Significant(toks')) = Stripped(Significant(InputFile.of))
         /\ phase' = "tokens"
<1> DEFINE of == InputFile.of
           lines == Filled(TokenLines(of))
<1>1. options.input \in FileNames /\ InputFile.kind = "tokens"
  BY DEF ReadTokens, ContentInv, InputInv, KindsFor
<1>2. of \in Seq(FileToken) /\ (InputFile.clean => TokensOf(source, of))
  BY <1>1 DEF ContentInv, FilesInv, Holds, InputFile
<1>3. /\ toks' = TokensIn(lines) /\ phase' = "tokens"
      /\ ~ \E n \in DOMAIN lines : IsMalformed(lines[n])
      /\ clean' = (InputFile.clean /\ \A n \in DOMAIN of : ~ IsMultiline(of[n]))
  BY DEF ReadTokens, Continue, Finish, TokensIn
<1> HIDE DEF of
<1>4. lines \in Seq(Seq(Line))
  BY <1>2, TokenLinesType
<1>5. toks' \in Seq(FileToken)
  <2> HIDE DEF lines
  <2> QED
    BY <1>3, <1>4, ReadTokensType
<1>6. ASSUME \A n \in DOMAIN of : ~ IsMultiline(of[n]) PROVE SameTokens(toks', of)
  BY <1>2, <1>3, <1>6, ReadTokensSame
<1>7. clean' => TokensOf(source, toks')
  <2>1. source.tokens \in Seq(FileToken)
    BY SourceTokensType DEF TypeInv, PipelineTypeOK
  <2> QED
    BY <1>2, <1>3, <1>5, <1>6, <2>1, SameTransitive DEF TokensOf
<1>8. \/ \E n \in DOMAIN of : IsMultiline(of[n])
      \/ Stripped(Significant(toks')) = Stripped(Significant(of))
  BY <1>2, <1>5, <1>6, SameSignificant, SameStripped
<1> QED
  BY <1>3, <1>5, <1>7, <1>8 DEF of

(* What can be said of the nodes that were read of a file.                 *)
Reread(file, bundle, nodes) ==
  (bundle => ~ IsMisled(file)) =>
    /\ (bundle => ~ IsCut(file.of)) => (Essence(nodes) = Essence(file.of) <=> ~ IsLossy(file.of))
    /\ bundle /\ (\E k \in 1 .. Len(file.of) - 1 : EndsIn(file.of[k])) =>
         Essence(nodes) # Essence(file.of)

LEMMA TreeFileGives ==
  ASSUME NEW file, file.of \in Seq(FileNode)
  PROVE  /\ NodesIn(KeptLines(TreeLines(file.of))) \in Seq(FileNode)
         /\ Reread(file, FALSE, NodesIn(KeptLines(TreeLines(file.of))))
<1>1. TreeLines(file.of) \in Seq(FileLine)
  BY TreeLinesAre
<1>2. NodesIn(KeptLines(TreeLines(file.of))) \in Seq(FileNode)
  BY <1>1, ReadTreeType
<1>3. Essence(NodesIn(KeptLines(TreeLines(file.of)))) = Essence(file.of) <=> ~ IsLossy(file.of)
  BY ReadTreeEssence
<1> QED
  BY <1>2, <1>3 DEF Reread

LEMMA BundleGives ==
  ASSUME NEW file, file.of \in Seq(FileNode), file.ast \in Seq(FileLine),
         IsRooted(KeptLines(Section(BundleLines(file))))
  PROVE  /\ NodesIn(KeptLines(Section(BundleLines(file)))) \in Seq(FileNode)
         /\ Reread(file, TRUE, NodesIn(KeptLines(Section(BundleLines(file)))))
<1> DEFINE all == Section(BundleLines(file))
           nodes == NodesIn(KeptLines(all))
           of == file.of
<1>1. BundleLines(file) \in Seq(FileLine)
  BY BundleType
<1>2. all \in Seq(FileLine)
  BY <1>1, SectionType
<1>3. nodes \in Seq(FileNode)
  <2> HIDE DEF all
  <2> QED
    BY <1>2, ReadTreeType
<1>4. ASSUME file.kind = "ast", ~ IsMisled(file) PROVE FALSE
  <2>1. BundleLines(file) = file.ast
    BY <1>4 DEF BundleLines
  <2>2. all = << >>
    BY <1>4, <2>1 DEF Section, IsMisled
  <2>3. << >> \in Seq(FileLine) /\ \A kept : 1 .. Len(<< >>) \subseteq kept
    OBVIOUS
  <2>4. KeptLines(<< >>) = << >>
    BY <2>3, ThoseAll DEF KeptLines
  <2> QED
    BY <2>2, <2>4 DEF IsRooted
<1>5. ASSUME ~ IsMisled(file), ~ IsCut(of) PROVE Essence(nodes) = Essence(of) <=> ~ IsLossy(of)
  <2>1. file.kind # "ast"
    BY <1>4, <1>5
  <2>2. all = TreeLines(of)
    BY <1>5, <2>1, SectionIs
  <2> HIDE DEF all
  <2> QED
    BY <2>2, ReadTreeEssence
<1>6. ASSUME ~ IsMisled(file), NEW k \in 1 .. Len(of) - 1, EndsIn(of[k])
      PROVE  Essence(nodes) # Essence(of)
  <2>1. file.kind # "ast"
    BY <1>4, <1>6
  <2>2. k \in 1 .. Len(of) /\ k < Len(of)
    OBVIOUS
  <2>3. Len(all) <= k
    BY <1>6, <2>1, <2>2, SectionIs
  <2> HIDE DEF all
  <2>4. Len(all) < Len(of)
    <3>1. Len(all) \in Nat /\ Len(of) \in Nat
      BY <1>2
    <3> QED
      BY <2>2, <2>3, <3>1
  <2> QED
    BY <1>2, <2>4, ReadShorter
<1> QED
  BY <1>3, <1>5, <1>6 DEF Reread

LEMMA ReadTreeGives ==
  ASSUME TypeInv, PhaseInv, ContentInv, ReadTree, phase' # "exited"
  PROVE  /\ tree' \in Seq(FileNode) /\ (clean' => NodesOf(source, tree'))
         /\ Reread(InputFile, options.mode = "bundle", tree')
         /\ phase' = "tree"
<1> DEFINE of == InputFile.of
           all == IF options.mode = "tree" THEN TreeLines(of) ELSE Section(BundleLines(InputFile))
<1>1. /\ options.input \in FileNames /\ options.mode \in {"tree", "bundle"}
      /\ InputFile.kind \in {"tree", "ast", "bundle"}
      /\ options.mode = "bundle" => InputFile.kind \in {"ast", "bundle"}
  BY DEF ReadTree, ContentInv, InputInv, KindsFor
<1>2. /\ of \in Seq(FileNode) /\ (InputFile.clean => NodesOf(source, of))
      /\ options.mode = "bundle" => InputFile.ast \in Seq(FileLine)
  BY <1>1 DEF ContentInv, FilesInv, Holds, InputFile
<1>3. /\ tree' = NodesIn(KeptLines(all)) /\ phase' = "tree" /\ IsRooted(KeptLines(all))
      /\ clean' = (/\ InputFile.clean /\ ~ IsLossy(of)
                   /\ options.mode = "bundle" => ~ IsMisled(InputFile) /\ ~ IsCut(of))
  BY DEF ReadTree, Continue, Finish, NodesIn
<1>4. tree' \in Seq(FileNode) /\ Reread(InputFile, options.mode = "bundle", tree')
  <2>1. CASE options.mode = "tree"
    BY <1>2, <1>3, <2>1, TreeFileGives
  <2>2. CASE options.mode = "bundle"
    <3>1. all = Section(BundleLines(InputFile))
      BY <2>2
    <3> QED
      BY <1>2, <1>3, <2>2, <3>1, BundleGives
  <2> QED
    BY <1>1, <2>1, <2>2
<1>5. clean' => NodesOf(source, tree')
  BY <1>2, <1>3, <1>4 DEF Reread, NodesOf
<1> QED
  BY <1>3, <1>4, <1>5

LEMMA ParseGives ==
  ASSUME TypeInv, PhaseInv, ContentInv, Parse, phase' # "exited"
  PROVE  tree' \in Seq(FileNode) /\ (clean' => NodesOf(source, tree')) /\ phase' = "tree"
<1> DEFINE a == Significant(toks)
           b == Significant(source.tokens)
<1>1. toks \in Seq(FileToken) /\ (clean => SameTokens(toks, source.tokens)) /\ clean' = clean
      /\ source \in Sources /\ source.tokens \in Seq(FileToken)
  BY SourceTokensType DEF Parse, ContentInv, MemoryInv, TokensOf, TypeInv, PipelineTypeOK
<1>2. /\ tree' = TreeOf(a) /\ phase' = "tree" /\ TypesOf(a) \in DOMAIN Trees
      /\ ~ \E n \in DOMAIN toks : toks[n].type = "UNKNOWN"
  BY DEF Parse, Continue, Finish
<1>3. a \in Seq(FileToken)
  <2>1. SameTokens(toks, toks)
    BY DEF SameTokens, SameToken
  <2> QED
    BY <1>1, <2>1, SameSignificant
<1>4. tree' \in Seq(FileNode)
  <2> HIDE DEF a
  <2> QED
    BY <1>2, <1>3, TreeOfType
<1>5. ASSUME clean PROVE NodesOf(source, tree')
  <2>1. SameTokens(a, b) /\ b \in Seq(FileToken)
    BY <1>1, <1>5, SameSignificant
  <2>2. TypesOf(b) = TypesOf(a)
    BY <1>3, <2>1, SameStripped
  <2>3. Essence(TreeOf(a)) = Essence(TreeOf(b))
    <3> HIDE DEF a, b
    <3> QED
      BY <1>2, <1>3, <2>1, SameTrees
  <2>4. source \in DOMAIN SourceTree /\ SourceTree[source] = Essence(TreeOf(b))
    <3>1. source \in {r \in Sources : TypesOf(Significant(r.tokens)) \in DOMAIN Trees}
      BY <1>1, <1>2, <2>2
    <3> QED
      BY <3>1 DEF SourceTree
  <2>5. ~ LexErrors(source)
    <3>1. Len(toks) = Len(source.tokens) /\ DOMAIN toks = 1 .. Len(toks)
          /\ DOMAIN source.tokens = 1 .. Len(toks)
          /\ \A k \in 1 .. Len(toks) : toks[k].type = source.tokens[k].type
      BY <1>1, <1>5 DEF SameTokens, SameToken
    <3> QED
      BY <1>2, <3>1 DEF LexErrors
  <2> QED
    BY <1>2, <2>3, <2>4, <2>5 DEF NodesOf
<1> QED
  BY <1>1, <1>2, <1>4, <1>5

LEMMA AstsAreLines == Asts \subseteq Seq(FileLine)
<1> DEFINE L == [indent : Nat, text : Seq(Marks \ {"\n"})]
<1>1. Asts \subseteq Seq(L)
  BY AstsAssumption
<1>2. L \subseteq FileLine
  <2>1. ASSUME NEW line \in L PROVE line \in FileLine
    <3>1. line.text \in Seq(Marks \ {"\n"}) /\ Marks \ {"\n"} \subseteq Written
      BY DEF Written
    <3>2. line.text \in Seq(Written)
      BY <3>1, SeqMonotonic
    <3>3. line = [indent |-> line.indent, text |-> line.text] /\ line.indent \in Nat
      OBVIOUS
    <3> QED
      BY <3>2, <3>3 DEF FileLine
  <2> QED
    BY <2>1
<1> HIDE DEF L
<1> QED
  BY <1>1, <1>2, SeqMonotonic

LEMMA AnalysePrints ==
  ASSUME Analyse, phase' # "exited"
  PROVE  phase' = "report" /\ ast' \in Seq(FileLine)
<1>1. phase' = "report" /\ ast' \in AstsOf(tree)
  BY DEF Analyse, Finish, Continue
<1>2. \A s \in Sources : s.ast \in Asts
  BY SourcesAssumption
<1>3. AstsOf(tree) \subseteq Asts
  BY <1>2 DEF AstsOf, Known, SourceTree
<1> QED
  BY <1>1, <1>3, AstsAreLines

LEMMA AnalyseGives ==
  ASSUME TypeInv, PhaseInv, ContentInv, Analyse, clean
  PROVE  outcome' = source.verdict
<1>1. NodesOf(source, tree)
  BY DEF Analyse, ContentInv, MemoryInv, Late
<1>2. source \in Known(tree)
  BY <1>1 DEF NodesOf, Known
<1>3. outcome' \in {s.verdict : s \in Known(tree)}
  BY <1>2 DEF Analyse, OutcomesOf
<1>4. \A s \in Known(tree) : s.verdict = source.verdict
  BY <1>2, VerdictsAssumption DEF Known
<1> QED
  BY <1>3, <1>4

-----------------------------------------------------------------------------
(* What the phases make of it.                                            *)
LEMMA MemoryStep ==
  ASSUME TypeInv, PhaseInv, ContentInv, PipelineStep
  PROVE  MemoryInv' /\ InputInv'
<1>0. MemoryInv /\ source' = source /\ source \in Sources
  BY DiskStep DEF ContentInv, DiskKept, TypeInv, PipelineTypeOK
<1> USE <1>0 DEF MemoryInv, InputInv, Late, Finish, Continue, CannotWrite, Kept, memory
<1>1. CASE Lex
  <2>1. source.tokens \in Seq(FileToken) /\ TokensOf(source, source.tokens)
    BY SourceTokensType DEF TokensOf, SameTokens, SameToken
  <2> QED
    BY <1>1, <2>1 DEF Lex
<1>2. CASE RefuseTrace BY <1>2 DEF RefuseTrace
<1>3. CASE ReadTokens
  <2>1. CASE phase' = "exited" BY <2>1
  <2>2. CASE phase' # "exited"
    <3>1. toks' \in Seq(FileToken) /\ (clean' => TokensOf(source, toks')) /\ phase' = "tokens"
      BY <1>3, <2>2, ReadTokensGives
    <3> QED
      BY <3>1
  <2> QED
    BY <2>1, <2>2
<1>4. CASE ReadTree
  <2>1. CASE phase' = "exited" BY <2>1
  <2>2. CASE phase' # "exited"
    <3>1. tree' \in Seq(FileNode) /\ (clean' => NodesOf(source, tree')) /\ phase' = "tree"
      BY <1>4, <2>2, ReadTreeGives
    <3> QED
      BY <3>1
  <2> QED
    BY <2>1, <2>2
<1>5. CASE SaveTrace BY <1>5 DEF SaveTrace
<1>6. CASE ReportLexErrors BY <1>6 DEF ReportLexErrors
<1>7. CASE PassLexer BY <1>7 DEF PassLexer
<1>8. CASE SaveTokens BY <1>8 DEF SaveTokens
<1>9. CASE Parse
  <2>1. CASE phase' = "exited" BY <2>1
  <2>2. CASE phase' # "exited"
    <3>1. tree' \in Seq(FileNode) /\ (clean' => NodesOf(source, tree')) /\ phase' = "tree"
      BY <1>9, <2>2, ParseGives
    <3> QED
      BY <3>1
  <2> QED
    BY <2>1, <2>2
<1>10. CASE SaveTree BY <1>10 DEF SaveTree
<1>11. CASE Analyse
  <2>1. clean => outcome' = source.verdict
    BY <1>11, AnalyseGives DEF ContentInv
  <2>2. phase' = "exited" \/ (phase' = "report" /\ ast' \in Seq(FileLine))
    BY <1>11, AnalysePrints
  <2>3. tree \in Seq(FileNode) /\ (clean => NodesOf(source, tree))
    BY <1>11 DEF Analyse
  <2> QED
    BY <1>11, <2>1, <2>2, <2>3 DEF Analyse
<1>12. CASE Report BY <1>12 DEF Report
<1>13. CASE Generate BY <1>13 DEF Generate
<1>14. CASE Run BY <1>14 DEF Run
<1> QED
  BY <1>1, <1>2, <1>3, <1>4, <1>5, <1>6, <1>7, <1>8, <1>9, <1>10, <1>11, <1>12, <1>13, <1>14
  DEF PipelineStep

LEMMA RereadStep ==
  ASSUME TypeInv, PhaseInv, ContentInv, TokensReread, TreeReread, PipelineStep
  PROVE  TokensReread' /\ TreeReread'
<1>0. options' = options
  BY DiskStep DEF DiskKept
<1> USE <1>0 DEF TokensReread, TreeReread, Finish, Continue, CannotWrite, Kept, memory
<1>1. CASE Lex BY <1>1 DEF Lex
<1>2. CASE RefuseTrace BY <1>2 DEF RefuseTrace
<1>3. CASE ReadTokens
  <2>1. CASE phase' = "exited" BY <2>1
  <2>2. CASE phase' # "exited"
    <3>1. /\ \/ \E n \in DOMAIN InputFile.of : IsMultiline(InputFile.of[n])
             \/ Stripped(Significant(toks')) = Stripped(Significant(InputFile.of))
          /\ phase' = "tokens" /\ InputFile' = InputFile
      <4>1. InputFile' = InputFile
        BY <1>3 DEF ReadTokens, InputFile
      <4> QED
        BY <1>3, <2>2, <4>1, ReadTokensGives
    <3> QED
      BY <3>1
  <2> QED
    BY <2>1, <2>2
<1>4. CASE ReadTree
  <2>1. CASE phase' = "exited" BY <2>1
  <2>2. CASE phase' # "exited"
    <3>1. /\ Reread(InputFile, options.mode = "bundle", tree')
          /\ phase' = "tree" /\ InputFile' = InputFile
      <4>1. InputFile' = InputFile
        BY <1>4 DEF ReadTree, InputFile
      <4> QED
        BY <1>4, <2>2, <4>1, ReadTreeGives
    <3> QED
      BY <3>1 DEF Reread
  <2> QED
    BY <2>1, <2>2
<1>5. CASE SaveTrace BY <1>5 DEF SaveTrace
<1>6. CASE ReportLexErrors BY <1>6 DEF ReportLexErrors
<1>7. CASE PassLexer BY <1>7 DEF PassLexer, PhaseInv
<1>8. CASE SaveTokens BY <1>8 DEF SaveTokens
<1>9. CASE Parse BY <1>9 DEF Parse, PhaseInv, FromTokens
<1>10. CASE SaveTree BY <1>10 DEF SaveTree
<1>11. CASE Analyse BY <1>11 DEF Analyse
<1>12. CASE Report BY <1>12 DEF Report
<1>13. CASE Generate BY <1>13 DEF Generate
<1>14. CASE Run BY <1>14 DEF Run
<1> QED
  BY <1>1, <1>2, <1>3, <1>4, <1>5, <1>6, <1>7, <1>8, <1>9, <1>10, <1>11, <1>12, <1>13, <1>14
  DEF PipelineStep

(* All that the theorems on files rest on.                                 *)
CInv == TypeInv /\ PhaseInv /\ ContentInv /\ TokensReread /\ TreeReread

LEMMA ContentInit == PipelineInit => ContentInv /\ TokensReread /\ TreeReread
<1> SUFFICES ASSUME PipelineInit PROVE ContentInv /\ TokensReread /\ TreeReread
  OBVIOUS
<1>1. phase = "idle" /\ \A f \in FileNames : disk[f].kind = "none"
  BY DEF PipelineInit, NoFile
<1> QED
  BY <1>1 DEF ContentInv, FilesInv, Holds, InputInv, MemoryInv, Late, TokensReread, TreeReread

LEMMA ContentStart ==
  ASSUME TypeInv, ContentInv, NEW o \in Commands, Start(o)
  PROVE  ContentInv' /\ TokensReread' /\ TreeReread'
<1>1. phase' \in {"input", "exited"} /\ UNCHANGED << source, disk >>
  BY DEF Start, Finish
<1>2. FilesInv'
  BY <1>1 DEF ContentInv, FilesInv
<1>3. MemoryInv' /\ TokensReread' /\ TreeReread'
  BY <1>1 DEF MemoryInv, Late, TokensReread, TreeReread
<1>4. InputInv'
  <2>1. o.mode # "source" => o.input \in FileNames /\ disk[o.input].kind \in KindsFor(o.mode)
    BY CommandsAssumption DEF Start, Options
  <2>2. options' = Resolved(o) /\ Resolved(o).mode = o.mode /\ Resolved(o).input = o.input
    <3>1. o \in Options
      BY CommandsAssumption
    <3>2. Resolved(o).input = o.input
      BY <3>1 DEF Resolved, Options
    <3> QED
      BY <3>2, ResolvedTypes DEF Start
  <2> QED
    BY <1>1, <2>1, <2>2 DEF InputInv, InputFile
<1> QED
  BY <1>2, <1>3, <1>4 DEF ContentInv

LEMMA ContentStep == CInv /\ [PipelineNext]_pipelineVars => CInv'
<1> SUFFICES ASSUME CInv, [PipelineNext]_pipelineVars PROVE CInv'
  OBVIOUS
<1>0. TypeInv' /\ TypeInv /\ PhaseInv /\ ContentInv /\ TokensReread /\ TreeReread
  BY TypeStep DEF CInv
<1>1. CASE PipelineStep
  BY <1>0, <1>1, PhaseStep, FilesStep, MemoryStep, RereadStep DEF CInv, ContentInv
<1>2. ASSUME NEW o \in Commands, Start(o) PROVE CInv'
  BY <1>0, <1>2, PhaseStart, ContentStart DEF CInv
<1>3. CASE UNCHANGED pipelineVars
  <2>1. PhaseInv'
    BY <1>0, <1>3 DEF pipelineVars, memory, PhaseInv, FromTokens, Wrote
  <2>2. ContentInv'
    BY <1>0, <1>3 DEF pipelineVars, memory, ContentInv, FilesInv, InputInv, MemoryInv, InputFile
  <2>3. TokensReread' /\ TreeReread'
    BY <1>0, <1>3 DEF pipelineVars, memory, TokensReread, TreeReread, InputFile
  <2> QED
    BY <1>0, <2>1, <2>2, <2>3 DEF CInv
<1> QED
  BY <1>1, <1>2, <1>3 DEF PipelineNext

LEMMA ContentAlways == PipelineSpec => []CInv
<1>1. PipelineInit => CInv
  BY TypeInit, PromiseInit, ContentInit DEF CInv
<1> QED
  BY <1>1, ContentStep, PTL DEF PipelineSpec

(* A token file gives the parser back the tokens it was made of, whatever  *)
(* they are, unless one of them has several lines: each token is one line, *)
(* and the outermost parentheses of a line delimit its value.              *)
THEOREM TokensComeBack == PipelineSpec => []TokensReread
<1>1. CInv => TokensReread
  BY DEF CInv
<1> QED
  BY <1>1, ContentAlways, PTL

(* A parse tree file gives back the tree, in what the builder uses of it,  *)
(* if and only if no leaf is of those whose line is taken for other output *)
(* or cut at a square bracket.  So does a bundle in which no text contains *)
(* a marker of the section.  Where a leaf before the last contains the end *)
(* marker, what is read of a bundle is another tree, always; of a bundle   *)
(* whose printed AST contains the begin marker nothing is said.            *)
THEOREM TreesComeBack == PipelineSpec => []TreeReread
<1>1. CInv => TreeReread
  BY DEF CInv
<1> QED
  BY <1>1, ContentAlways, PTL

(* However many files and commands lie between: while nothing was lost on  *)
(* the way - no token of several lines in a token file, no lost leaf in a  *)
(* tree, no marker in a text of a bundle -, what a command analyses,       *)
(* translates and runs is the source, and the verdict is the source's; a   *)
(* source with lexical errors never comes that far.                        *)
THEOREM SourceIsMeant == PipelineSpec => []MeansTheSource
<1>1. CInv => MeansTheSource
  BY DEF CInv, ContentInv, MemoryInv, NodesOf, Late, MeansTheSource
<1> QED
  BY <1>1, ContentAlways, PTL

=============================================================================
