----------------------------- MODULE MCWorkload -----------------------------
(* Specs that Workload is checked on.                                      *)
EXTENDS Workload

\* The built-in scenarios, cut short.
Scenarios == {Override(SpecFor[s], 1, 0, 0) : s \in DOMAIN SpecFor}

OneClass == <<Class("a", 1, 1, 1)>>
Small == [SpecFor.steady EXCEPT !.duration = 1, !.tenants = 1, !.mix = OneClass]

\* Samplers at their edges.
Weights == {<<0, 1, 0, 3>>, <<3, 0, 0>>, <<0, 0>>, <<1, 1, 1, 1, 1>>}
Edges ==
  {[Small EXCEPT !.mix = [i \in DOMAIN w |-> Class(i, w[i], i, i)]] : w \in Weights}
    \cup {[Small EXCEPT !.mix = <<>>]}
    \cup {[Small EXCEPT !.tenants = n, !.skew = k] : n \in 0..3, k \in {0, 1, Grid \div 2, Grid}}
    \cup {[Small EXCEPT !.errors = [NoErrors EXCEPT !["rate_limit"] = a, !["transient"] = b,
                                                    !["permanent"] = c]] :
            a \in {0, 5, Grid}, b \in {0, 7}, c \in {0, 1, Grid}}

\* Streams: bursts with fractions, at the start and the end of the run, no
\* rate, and two classes of work.
Curve(start, window, mult) == [start |-> start, window |-> window, mult |-> mult]
Streams ==
  {[Small EXCEPT !.duration = 4, !.curve = c] :
       c \in {Flat, Curve(2, 1, (5 * Grid) \div 2), Curve(0, 2, 3 * Grid),
              Curve(3, 4, 2 * Grid), Curve(1, 2, Grid \div 2)}}
    \cup {[Small EXCEPT !.rate = 0, !.duration = 3]}
    \cup {[Small EXCEPT !.duration = 3, !.tenants = 2, !.mix = <<Class("a", 1, 1, 2), Class("b", 1, 3, 3)>>,
                        !.errors = [NoErrors EXCEPT !["transient"] = 1]]}

MCSpecs == Scenarios \cup Edges \cup Streams
=============================================================================
