CONSTANTS
  HdrSizes = {2, 3, 65534}
  BodySizes = {0, 1}
SPECIFICATION Spec
INVARIANT RoundTrip
