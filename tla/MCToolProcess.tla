--------------------------- MODULE MCToolProcess ---------------------------
(* A probe of two short queries, an audio stream of two and a half         *)
(* samples, and two stills, each with every truncation; a chatty child, a  *)
(* child that closes stdout early, and one whose output is not PNG.        *)
EXTENDS ToolProcess, SequencesExt

Exits(S, C) == [pieces : S, code : C]

Samples5 == <<"pcm", "pcm", "pcm", "pcm", "pcm">>
Still == <<"sig", "sig", "ihdr", "ihdr", "end", "end">>
Stills == Still \o <<"sig", "sig", "ihdr", "ihdr", "idat", "idat", "end", "end">>

MCScripts == [m \in Modes |->
    CASE m = "probe" ->
           Exits({<<>>, <<"txt">>, <<"txt", "txt", "txt">>, <<"err", "txt">>}, {0, 1})
      [] m = "audio" ->
           Exits(Prefixes(Samples5), {0, 1}) \cup
           Exits({<<"pcm", "pcm", "err", "err", "pcm", "pcm">>,
                  <<"pcm", "err", "pcm", "close", "err", "err">>}, {0, 1})
      [] m = "keyframes" ->
           Exits(Prefixes(Stills), {0, 1}) \cup
           Exits({<<"sig", "err", "err">> \o Tail(Still), <<"sig", "txt", "txt">>,
                  <<"sig", "sig", "end", "end">>}, {0})]
=============================================================================
