---------------------------- MODULE MCBenchmark ----------------------------
(* An instance of Benchmark for TLC: chunks above, below and dividing the     *)
(* size of the file, internal buffers above and below the chunks, and command *)
(* lines with the options in either order, repeated, bad and missing.         *)
EXTENDS Benchmark

Opt(o, v) == [opt |-> o, val |-> v]
Input == Opt("--input", <<1>>)
Quick == Opt("--quick", << >>)
Small == Opt("--sizes", <<2, 1>>)
Large == Opt("--sizes", <<3>>)
Buf   == Opt("--myfread-buffer", <<4>>)
Total == Opt("--write-total-bytes", <<1>>)

MCArgvs ==
    {<<Input>>, <<Quick, Input>>, <<Input, Small, Quick>>, <<Quick, Large, Input, Small>>,
     <<Buf, Input, Quick>>, <<Input, Quick, Total>>, <<Small, Buf, Total, Input>>,
     <<Input, Opt("--output", <<1>>), Opt("--write-dir", << >>)>>, <<Small, Quick>>,
     <<Input, Opt("--help", << >>)>>, <<Opt("unknown", << >>)>>,
     <<Input, Opt("--sizes", <<2, 0>>)>>, <<Input, Opt("--sizes", << >>)>>,
     <<Opt("--myfread-buffer", <<0>>), Input>>}
MCFileSizes    == {0, 5}
MCDefaultSizes == <<1, 3>>
MCQuickSizes   == <<4>>
============================================================================
