--------------------------- MODULE MCHttpRequest ---------------------------
(***************************************************************************)
(* The instances of HttpRequest that TLC checks.                           *)
(***************************************************************************)
EXTENDS HttpRequest

(* "a%20b" is decoded, "%zz" cannot be.                                    *)
MCDecoded == [segment \in {"a%20b"} |-> "a b"]

MCMethods == {"GET", "POST", "PUT", "DELETE", "PATCH"}

(* Known and unknown paths, with a parameter, one segment too many, and    *)
(* slashes where the code drops them.                                      *)
MCPaths == {<<"">>, <<"health">>, <<"subscriptions">>, <<"subscriptions", "s1">>,
            <<"events">>, <<"events", "a%20b">>, <<"", "events", "", "e1", "">>,
            <<"deliveries", "d1", "more">>, <<"deliveries">>, <<"deliveries", "d1">>,
            <<"docs">>, <<"openapi.yaml">>, <<"nope">>}

MCParsable ==
    [method : MCMethods, path : MCPaths \cup {<<"events", "%zz">>},
     target : {"parsable"}, content : {"json", "text"}]
=============================================================================
