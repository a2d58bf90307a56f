--------------------------- MODULE MCEndpointStatus ---------------------------
\* Two endpoints and chunks of one row: what one endpoint is to the code stays
\* in the request, two are two tasks.  Both settings of asynchronous import.
\* Reports with nothing for the finding, with one item, and with two, of which
\* the second lists another endpoint, and may be fixed or have a flag.
EXTENDS EndpointStatus

MCLocations == 1..2
MCSettings == BOOLEAN

Plain(S) == [fixed |-> FALSE, rejected |-> FALSE, at |-> S]

Flagged(S) == [Plain(S) EXCEPT !.rejected = TRUE]
Cured(S) == [Plain(S) EXCEPT !.fixed = TRUE]

MCReports ==
    {<<>>, <<Flagged({1})>>}
        \cup {<<[Plain(S) EXCEPT !.fixed = b]>> : S \in SUBSET Locations, b \in BOOLEAN}
        \cup {<<Plain({1}), second>> :
                 second \in {Plain({2}), Plain({1, 2}), Cured({2}), Flagged({2})}}

=============================================================================
