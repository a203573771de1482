SPECIFICATION LinkSpec
CONSTANTS
  TxRates = {284, 302, 308}
  RX_INC = 302
  Payload <- MCPayload
  NoByte = NoByte
  PowerUp = 5
  Settle = 3
  MaxIdle = 8
INVARIANT LinkTypeOK
PROPERTY CarriesBytes
