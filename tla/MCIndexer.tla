----------------------------- MODULE MCIndexer -----------------------------
(* Option sets for the instances of Indexer that TLC checks. *)
EXTENDS Indexer

Opt(engine, strategy, semgrep, findings, full) ==
  [engine |-> engine, strategy |-> strategy, semgrep |-> semgrep,
   findings |-> findings, full |-> full]

\* `cccr index --semgrep`, with either topic strategy, incremental or --full.
FindingsOptions == {Opt("manual", s, TRUE, TRUE, full) :
                      s \in Strategies, full \in BOOLEAN}

\* `cccr index --semgrep`, and the same with --engine cocoindex.
ManualOptions    == {Opt("manual", "default", TRUE, TRUE, FALSE)}
CocoindexOptions == {Opt("cocoindex", "default", TRUE, TRUE, FALSE)}
EitherEngine     == ManualOptions \cup CocoindexOptions

\* `cccr index`, the default: Semgrep runs for the endpoint inventory only.
InventoryOptions == {Opt("manual", "default", TRUE, FALSE, FALSE)}

\* The cocoindex engine with findings, and `cccr index --disable semgrep`, which
\* leaves the findings alone.
MixedOptions == CocoindexOptions \cup {Opt("manual", "default", FALSE, FALSE, FALSE)}

\* `cccr index --semgrep --topic-strategy strategy1`.
Strategy1Options == {Opt("manual", "strategy1", TRUE, TRUE, FALSE)}

\* Repositories without a contract, and with a pom.xml that may name the others.
NoContracts   == [f \in Files |-> {}]
PomNamesOthers == [f \in Files |-> IF f \in JoinFiles THEN Files \ JoinFiles ELSE {}]
=============================================================================
