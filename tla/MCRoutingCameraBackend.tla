----------------------- MODULE MCRoutingCameraBackend -----------------------
EXTENDS RoutingCameraBackend

\* An odd and an even width, top-down and bottom-up, and a header without a picture.
MCDimensions == {<<3, 2>>, <<2, -2>>, <<0, 2>>}

\* A camera of Qt and one of DirectShow with the same key, and one without a friendly name.
MCCameras == {[api |-> "qt", key |-> "a", name |-> "Webcam"],
              [api |-> "dshow", key |-> "a", name |-> "OBS"],
              [api |-> "dshow", key |-> "b", name |-> ""]}
=============================================================================
