--------------------------- MODULE HyperAdaptors ---------------------------
(***************************************************************************)
(* What an adaptor makes of HTTP and service messages: HyperResp with its  *)
(* conversions, the Hello adaptor, and the demo adaptors of the examples.  *)
(* A service message (TVF) is the tuple of its fields; an HTTP message is  *)
(* the path or the status that the adaptors read.                          *)
(***************************************************************************)
EXTENDS Naturals

\* HyperResp: what process_http_request returns.
SrvReq(service, msg) == [kind |-> "SrvReq", service |-> service, msg |-> msg]
HttpResp(code) == [kind |-> "HttpResp", code |-> code]
HttpErr == [kind |-> "HttpErr"]

\* A Result: Ok(v) or Err(e).
Ok(v)  == [ok |-> TRUE, val |-> v]
Err(e) == [ok |-> FALSE, val |-> e]

\* response_builder: the builder keeps a status that is none as its error.
Built(code) == IF code \in 100..999 THEN Ok(code) ELSE Err("http")

\* into(): a response, or whatever error there is (HttpError, hyper's or http's).
IntoHyperResp(res) == IF res.ok THEN HttpResp(res.val) ELSE HttpErr

\* The demo server. The handler of its service request is HyperServer's Code: 200 with
\* data, or else default_srv_error_response.
DemoServer(method, path) ==
    CASE path = "/" -> IntoHyperResp(Built(200))
      [] path = "/test" -> SrvReq("SRV_TEST", <<method, "/test">>)
      [] OTHER -> IntoHyperResp(Built(404))

\* The demo client: field 1 is the path to ask for, and then the status of the answer.
DemoRequest(msg) == IF 1 \in DOMAIN msg THEN Ok(msg[1]) ELSE Err("ProtocolError")
DemoResponse(res) == IF res.ok THEN Ok(<<res.val>>) ELSE Err("ProtocolError")
=============================================================================
