---------------------------- MODULE MCStripFiles ----------------------------
(* One directory: a film, sidecars of several kinds. *)
EXTENDS StripFiles

Film1 == <<"Film", "mkv">>

One == {Film1}
Languages == {"en", "de", "fr"}

Strangers == {<<"Film", "en", "srt">>, <<"Film", "en", "ass">>, <<"Film", "srt">>, <<"Film", "fr", "srt">>}

Lib(scope, langs, stream, beside) ==
  [scope |-> scope, langs |-> langs, stream |-> [v \in Video |-> stream], beside |-> beside]

\* Two languages share scope "all" only where nothing is replaced: otherwise
\* TrustedKept fails (README, "Seen without a run").
Settings == {Lib("all", {"en"}, <<"en", "fr">>, Strangers),
             Lib("per_language", {"en", "de"}, <<"en", "fr">>, Strangers),
             Lib("all", {"en", "de"}, <<>>, {})}

WorkerSymmetry == Permutations(Worker)
=============================================================================
