------------------------------ MODULE MCRedirects ------------------------------
EXTENDS Redirects

CONSTANTS u1, u2, u3

\* u1 redirects to u2 or u3, u2 to u3.
OriginHops(u) ==
    {Here} \cup CASE u = u1 -> {[to |-> u2, permanent |-> FALSE], [to |-> u3, permanent |-> TRUE]}
                  [] u = u2 -> [to : {u3}, permanent : BOOLEAN]
                  [] OTHER -> {}
==============================================================================
