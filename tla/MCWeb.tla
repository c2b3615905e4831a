-------------------------------- MODULE MCWeb --------------------------------
(***************************************************************************)
(* A small instance of the web server and what its clients may send.       *)
(***************************************************************************)
EXTENDS WebServer

Body(throttle, active) ==
    [t |-> throttle, y |-> 0, p |-> 0, r |-> throttle, a |-> active]

BodyLength == 10   \* units of a body

RcPost(header, length, throttle, active) ==
    [path |-> "rc", header |-> header, length |-> length, body |-> Body(throttle, active)]

\* The page armed, raised and rolling, armed at minimum, and disarmed with the slider
\* half up; a header that leaves no room for the end of the body; a Content-Length the
\* server does not see; and requests for other things, one of them a POST.
ClientPosts ==
    {RcPost(1, BodyLength, 100, 1), RcPost(1, BodyLength, 0, 1), RcPost(1, BodyLength, 50, 0),
     RcPost(3, BodyLength, 100, 1), RcPost(1, 0, 100, 1),
     [path |-> "page", header |-> 1, length |-> 0, body |-> Body(0, 0)],
     [path |-> "page", header |-> 1, length |-> 2, body |-> Body(100, 1)],
     [path |-> "malformed", header |-> 1, length |-> 0, body |-> Body(0, 0)],
     [path |-> "rc", header |-> 20, length |-> BodyLength, body |-> Body(0, 1)]}
=============================================================================
